---- MODULE Spec2Model ----
(***************************************************************************)
(* The streaming tool-call agent of the lesson builder: one chat turn of   *)
(* AIChatPanel (handleSend in agent mode -> runAgentWithTools ->           *)
(* ollamaService.chatStream -> parseToolCalls -> executeTool) running      *)
(* against the block document held by LessonBuilder.                       *)
(*                                                                         *)
(* JavaScript runs each stretch of code between two awaits atomically, so  *)
(* every action below is one such stretch.  The cancellation handle can be *)
(* signalled between any two of them.                                      *)
(***************************************************************************)
EXTENDS Integers, Sequences, FiniteSets, TLC

\* ---------------------------------------------------------------- bounds
MaxCalls == 2        \* longest tool_calls list the model's reply carries
MaxLines == 2        \* lines the backend writes on the response stream
MaxInFlight == 3     \* symbols the network holds between two reads
MaxSubChunks == 1    \* chunk callbacks of a stream_html_block sub-request

\* ------------------------------------------------------------ JS values
Undefined == "undefined"

NoIndex == [t |-> "undefined", n |-> 0]
Num(n) == [t |-> "number", n |-> n]

NoParams ==
  [title |-> Undefined, icon |-> Undefined, content |-> Undefined,
   code |-> Undefined, language |-> Undefined, prompt |-> Undefined,
   index |-> NoIndex]

\* An entry of the parsed tool_calls array: any JSON value.  c.tool and
\* c.params of a string are undefined; of null they throw.
Obj(tool, params) == [kind |-> "object", tool |-> tool, params |-> params]
NullEntry == [kind |-> "null", tool |-> Undefined, params |-> NoParams]
StringEntry == [kind |-> "string", tool |-> Undefined, params |-> NoParams]

\* JS truthiness of a string-or-undefined value (x || default)
Truthy(x) == x # Undefined /\ x # ""
OrElse(x, d) == IF Truthy(x) THEN x ELSE d

\* ------------------------------------------------- the document (blocks)
Block(id, type, content, language) ==
  [id |-> id, type |-> type, content |-> content, language |-> language]

NoLanguage == ""

\* prev.findIndex(b => b.id === id), 1-based here, 0 for "not found"
FindIndex(bs, id) ==
  IF \E i \in 1..Len(bs) : bs[i].id = id
  THEN CHOOSE i \in 1..Len(bs) : bs[i].id = id /\ \A j \in 1..(i-1) : bs[j].id # id
  ELSE 0

\* newBlocks.splice(index + 1, 0, newBlock) with a 0-based index (-1 when the
\* anchor is unknown): the block lands right after the anchor, or in front.
InsertAfter(bs, pos, b) ==
  SubSeq(bs, 1, pos) \o <<b>> \o SubSeq(bs, pos + 1, Len(bs))

\* handleAIAddBlock(blockData, afterId, customId): state updater of setBlocks
HandleAIAddBlock(bs, b, afterId) ==
  IF afterId # 0
  THEN InsertAfter(bs, FindIndex(bs, afterId), b)
  ELSE Append(bs, b)

\* updateBlock(id, 'content', value): prev.map(...), a no-op for an unknown id
UpdateBlock(bs, id, value) ==
  [i \in 1..Len(bs) |-> IF bs[i].id = id THEN [bs[i] EXCEPT !.content = value] ELSE bs[i]]

\* prev.filter(b => b.id !== id)
FilterOut(bs, id) ==
  LET F[i \in 0..Len(bs)] ==
        IF i = 0 THEN <<>>
        ELSE IF bs[i].id = id THEN F[i-1] ELSE Append(F[i-1], bs[i])
  IN F[Len(bs)]

\* deleteBlock(id): an emptied document is reset to one fresh empty text block
DeleteBlock(bs, id, freshId) ==
  LET newBlocks == FilterOut(bs, id)
  IN IF Len(newBlocks) = 0
     THEN <<Block(freshId, "text", "", NoLanguage)>>
     ELSE newBlocks

\* ------------------------------------------------------- executeTool
\* What the synchronous part of one executeTool call leaves behind: the
\* document after it, and how the call ends: "return" (with a result), "throw"
\* (the async function's promise rejects) or "await" (stream_html_block is
\* waiting for its sub-request, whose placeholder block is subBlock).
Outcome(doc, how, success, result, subBlock) ==
  [doc |-> doc, how |-> how, success |-> success, result |-> result,
   subBlock |-> subBlock]

Doc(bs, title, icon, nid) ==
  [blocks |-> bs, title |-> title, icon |-> icon, nextId |-> nid]

\* onAddBlock(blockData) without a custom id: the block gets generateBlockId()
AddGenerated(doc, type, content, language) ==
  [doc EXCEPT !.blocks = HandleAIAddBlock(@, Block(doc.nextId, type, content, language), 0),
              !.nextId = @ + 1]

\* index < 0 || index >= blocks.length; both comparisons are false for undefined
InvalidIndex(index, closure) ==
  index.t = "number" /\ (index.n < 0 \/ index.n >= Len(closure))

\* blocks[index].id throws a TypeError when blocks[index] is undefined
IndexThrows(index, closure) ==
  index.t = "undefined"

TypeErrorMessage == "Cannot read properties of undefined"

\* generateBlockId() inside deleteBlock's updater runs only for an emptied document
DeleteInDoc(doc, id) ==
  IF Len(FilterOut(doc.blocks, id)) = 0
  THEN [doc EXCEPT !.blocks = DeleteBlock(@, id, doc.nextId), !.nextId = @ + 1]
  ELSE [doc EXCEPT !.blocks = DeleteBlock(@, id, doc.nextId)]

\* A title handler that also touches the blocks
HandleTitleChangeAddsBlock(doc, newTitle) ==
  [doc EXCEPT !.title = newTitle,
              !.blocks = Append(@, Block(doc.nextId, "text", "", NoLanguage)),
              !.nextId = @ + 1]

\* handleTitleChange(newTitle): setLessonTitle(newTitle), onSetTitle?.(newTitle)
HandleTitleChange(doc, newTitle) == [doc EXCEPT !.title = newTitle]

\* handleIconChange(newIcon): setLessonIcon(newIcon), onSetIcon?.(newIcon)
HandleIconChange(doc, newIcon) == [doc EXCEPT !.icon = newIcon]

PlaceholderHtml == "Generating content..."
FailedHtml == "Failed to generate content"

\* executeTool(toolName, parameters) up to its first await.  closure is the
\* blocks array the callback closed over when it was created.
ExecuteTool(toolName, parameters, closure, doc) ==
  CASE toolName = "set_lesson_title" ->
         Outcome(HandleTitleChange(doc, parameters.title), "return", TRUE, "Title", 0)
    [] toolName = "set_lesson_icon" ->
         Outcome(HandleIconChange(doc, parameters.icon), "return", TRUE, "Icon", 0)
    [] toolName = "create_block" ->
         Outcome(AddGenerated(doc, "html", parameters.content, NoLanguage),
                 "return", TRUE, "Block created", 0)
    [] toolName = "update_block" ->
         IF InvalidIndex(parameters.index, closure)
         THEN Outcome(doc, "return", FALSE, "Invalid index", 0)
         ELSE IF IndexThrows(parameters.index, closure)
         THEN Outcome(doc, "throw", FALSE, TypeErrorMessage, 0)
         ELSE Outcome([doc EXCEPT !.blocks =
                         UpdateBlock(@, closure[parameters.index.n + 1].id, parameters.content)],
                      "return", TRUE, "Block updated", 0)
    [] toolName = "delete_block" ->
         IF InvalidIndex(parameters.index, closure)
         THEN Outcome(doc, "return", FALSE, "Invalid index", 0)
         ELSE IF IndexThrows(parameters.index, closure)
         THEN Outcome(doc, "throw", FALSE, TypeErrorMessage, 0)
         ELSE Outcome(DeleteInDoc(doc, closure[parameters.index.n + 1].id), "return", TRUE,
                      IF Len(closure) = 1 THEN "Block deleted (canvas reset)"
                      ELSE "Block deleted", 0)
    [] toolName = "create_code_block" ->
         Outcome(AddGenerated(doc, "code", OrElse(parameters.code, ""),
                              OrElse(parameters.language, "javascript")),
                 "return", TRUE, "Code block created", 0)
    [] toolName = "create_react_block" ->
         Outcome(AddGenerated(doc, "react", OrElse(parameters.code, "<Button>"), NoLanguage),
                 "return", TRUE, "Interactive React block created", 0)
    [] toolName = "create_mermaid_block" ->
         Outcome(AddGenerated(doc, "mermaid", OrElse(parameters.code, "graph TD"), NoLanguage),
                 "return", TRUE, "Mermaid diagram block created", 0)
    [] toolName = "create_math_block" ->
         Outcome(AddGenerated(doc, "math", OrElse(parameters.code, "E = mc^2"), NoLanguage),
                 "return", TRUE, "Math formula block created", 0)
    [] toolName = "stream_html_block" ->
         Outcome([doc EXCEPT !.blocks =
                    HandleAIAddBlock(@, Block(doc.nextId, "html", PlaceholderHtml, NoLanguage), 0),
                  !.nextId = @ + 1],
                 "await", TRUE, "Content streamed to canvas", doc.nextId)
    [] OTHER ->
         Outcome(doc, "return", FALSE, "Unknown tool", 0)

\* ---------------------------------------------- the parsed command list
\* Required parameters of the TOOLS table
Required(toolName) ==
  CASE toolName = "set_lesson_title" -> {"title"}
    [] toolName = "set_lesson_icon" -> {"icon"}
    [] toolName = "create_block" -> {"content"}
    [] toolName = "update_block" -> {"index", "content"}
    [] toolName = "delete_block" -> {"index"}
    [] toolName = "create_code_block" -> {"code", "language"}
    [] toolName = "create_react_block" -> {"code"}
    [] toolName = "create_mermaid_block" -> {"code"}
    [] toolName = "create_math_block" -> {"code"}
    [] toolName = "stream_html_block" -> {"prompt"}
    [] OTHER -> {}

ToolNames ==
  {"set_lesson_title", "set_lesson_icon", "create_block", "update_block",
   "delete_block", "create_code_block", "create_react_block",
   "create_mermaid_block", "create_math_block", "stream_html_block"}

\* const parallelizableTools = ['set_lesson_title', 'set_lesson_icon']
ParallelizableTools == {"set_lesson_title", "set_lesson_icon"}

\* The entries a reply's tool_calls array is drawn from
IndexInputs == {0, 2}

Entries ==
  { Obj("set_lesson_title", [NoParams EXCEPT !.title = "T"]),
    Obj("set_lesson_title", NoParams),
    Obj("set_lesson_icon", [NoParams EXCEPT !.icon = "I"]),
    Obj("create_block", [NoParams EXCEPT !.content = "C"]),
    Obj("create_block", NoParams),
    Obj("update_block", [NoParams EXCEPT !.content = "U"]),
    Obj("delete_block", [NoParams EXCEPT !.index = Num(0)]),
    Obj("create_code_block", [NoParams EXCEPT !.code = "K"]),
    Obj("create_math_block", NoParams),
    Obj("stream_html_block", [NoParams EXCEPT !.prompt = "P"]),
    Obj("bogus_tool", NoParams),
    Obj(Undefined, NoParams),
    NullEntry,
    StringEntry }
  \cup { Obj("update_block", [NoParams EXCEPT !.index = Num(i), !.content = "U"]) : i \in IndexInputs }

CallLists ==
  UNION { [1..n -> Entries] : n \in 0..MaxCalls }

\* ------------------------------------------------------------ messages
Msg(id, role, content, status, streaming, toolCalls) ==
  [id |-> id, role |-> role, content |-> content, isThinking |-> status,
   isStatus |-> status, isStreaming |-> streaming, toolCalls |-> toolCalls]

WelcomeMsg == Msg("welcome", "assistant", <<"welcome">>, FALSE, FALSE, <<>>)
UserMsg == Msg("user", "user", <<"input">>, FALSE, FALSE, <<>>)
ThinkingMsg == Msg("thinking", "assistant", <<"Thinking...">>, TRUE, FALSE, <<>>)

\* prev.filter(m => m.id !== ...)
WithoutIds(ms, ids) == SelectSeq(ms, LAMBDA m : m.id \notin ids)

\* prev.filter(m => !m.isThinking && !m.isStatus)
WithoutStatus(ms) == SelectSeq(ms, LAMBDA m : ~m.isThinking /\ ~m.isStatus)

HasMsg(ms, id) == \E i \in 1..Len(ms) : ms[i].id = id

\* onStreamChunk(accumulated): the first chunk replaces the thinking message
\* by the streaming message, later chunks rewrite its content
OnStreamChunk(ms, accumulated) ==
  IF HasMsg(ms, "streaming")
  THEN [i \in 1..Len(ms) |->
          IF ms[i].id = "streaming" THEN [ms[i] EXCEPT !.content = accumulated] ELSE ms[i]]
  ELSE Append(WithoutIds(ms, {"thinking"}),
              Msg("streaming", "assistant", accumulated, FALSE, TRUE, <<>>))

\* prev.filter(m => m.id !== thinkingId && m.id !== streamingMsgId)
DropProgress(ms) ==
  WithoutIds(ms, {"thinking", "streaming"})

\* -------------------------------------------------- the response stream
\* A response line is written here as its pieces: a line split by the network
\* arrives as a first and a second piece, "NL" is the line feed.
LineKinds == {"a", "b", "adone", "done", "garbage", "blank"}

LineSyms(k) ==
  CASE k = "a" -> <<"a1", "a2">>
    [] k = "b" -> <<"b1", "b2">>
    [] k = "adone" -> <<"x1", "x2">>
    [] k = "done" -> <<"d1", "d2">>
    [] k = "garbage" -> <<"g">>
    [] OTHER -> <<>>

\* JSON.parse(line) and the two fields chatStream reads from the result; any
\* line that is not a whole object makes JSON.parse throw a SyntaxError
ParseLine(line) ==
  CASE line = <<"a1", "a2">> -> [ok |-> TRUE, content |-> "a", done |-> FALSE]
    [] line = <<"b1", "b2">> -> [ok |-> TRUE, content |-> "b", done |-> FALSE]
    [] line = <<"x1", "x2">> -> [ok |-> TRUE, content |-> "a", done |-> TRUE]
    [] line = <<"d1", "d2">> -> [ok |-> TRUE, content |-> "", done |-> TRUE]
    [] OTHER -> [ok |-> FALSE, content |-> "", done |-> FALSE]

\* buffer.split('\n'): the pieces between line feeds, the last one unfinished
SplitLines(s) ==
  LET F[i \in 0..Len(s)] ==
        IF i = 0 THEN << <<>> >>
        ELSE IF s[i] = "NL" THEN Append(F[i-1], <<>>)
        ELSE [F[i-1] EXCEPT ![Len(F[i-1])] = Append(@, s[i])]
  IN F[Len(s)]

\* A reader that forgets the unfinished line between two reads
DropPartial(q) == <<>>

AllButLast(q) == SubSeq(q, 1, Len(q) - 1)
Last(q) == q[Len(q)]

\* for (const line of lines) { ... }: the chunks pushed, the messages after the
\* chunk callbacks, and whether a done line ended the stream
ProcessLines(lines, chunks, ms) ==
  LET F[i \in 0..Len(lines)] ==
        IF i = 0 THEN [chunks |-> chunks, msgs |-> ms, done |-> FALSE, log |-> <<>>]
        ELSE LET p == F[i-1]
                 d == ParseLine(lines[i])
                 pushed == IF d.content # "" THEN Append(p.chunks, d.content) ELSE p.chunks
             IN IF p.done \/ lines[i] = <<>> \/ ~d.ok THEN p
                ELSE [chunks |-> pushed,
                      msgs |-> IF d.content # "" THEN OnStreamChunk(p.msgs, pushed) ELSE p.msgs,
                      done |-> d.done,
                      log |-> IF d.content # ""
                              THEN Append(p.log, [delta |-> d.content, accumulated |-> pushed])
                              ELSE p.log]
  IN F[Len(lines)]

\* "Process any remaining buffer content": a last delta without its line feed
\* is pushed, and no chunk callback runs for it
FlushBuffer(buf, chunks) ==
  LET d == ParseLine(buf)
  IN IF buf # <<>> /\ d.ok /\ d.content # "" THEN Append(chunks, d.content) ELSE chunks

\* ------------------------------------------------- the reply as text
\* A reply is a sequence of characters.  A run of letters is written as one
\* symbol ("message", "a"), "FENCE" is three backticks, "NL" a line feed.
IsWs(c) == c \in {" ", "NL"}

IndexOf(str, c) ==
  IF \E i \in 1..Len(str) : str[i] = c
  THEN CHOOSE i \in 1..Len(str) : str[i] = c /\ \A j \in 1..(i - 1) : str[j] # c
  ELSE 0

NotFound == [found |-> FALSE, text |-> <<>>]
Found(text) == [found |-> TRUE, text |-> text]

\* A scan that counts every brace, also those inside strings
FindBalancedJsonNaive(str) ==
  LET start == IndexOf(str, "{")
      Depth(i) == Cardinality({j \in start..i : str[j] = "{"})
                    - Cardinality({j \in start..i : str[j] = "}"})
      ends == {i \in start..Len(str) : Depth(i) = 0}
  IN IF start = 0 \/ ends = {} THEN NotFound
     ELSE Found(SubSeq(str, start, CHOOSE i \in ends : \A j \in ends : i <= j))

\* A scan that hands back the rest of the text when the braces do not balance
FindBalancedJsonToEnd(str) ==
  LET start == IndexOf(str, "{")
      whole == FindBalancedJsonNaive(str)
  IN IF start = 0 THEN NotFound
     ELSE IF whole.found THEN whole
     ELSE Found(SubSeq(str, start, Len(str)))

\* One turn of the loop of findBalancedJson: p is the state before str[i]
ScanStep(str, p, i) ==
  LET char == str[i]
  IN IF p.end # 0 THEN p
     ELSE IF p.escapeNext THEN [p EXCEPT !.escapeNext = FALSE]
     ELSE IF char = "\\" /\ p.inString THEN [p EXCEPT !.escapeNext = TRUE]
     ELSE IF char = "\"" THEN [p EXCEPT !.inString = ~p.inString]
     ELSE IF p.inString THEN p
     ELSE IF char = "{" THEN [p EXCEPT !.depth = p.depth + 1]
     ELSE IF char = "}"
          THEN IF p.depth - 1 = 0
               THEN [p EXCEPT !.depth = 0, !.end = i]
               ELSE [p EXCEPT !.depth = p.depth - 1]
     ELSE p

\* The loop over str[a..b], run as its first half and then its second half
RECURSIVE ScanFrom(_, _, _, _)
ScanFrom(str, p, a, b) ==
  IF a > b THEN p
  ELSE IF a = b THEN ScanStep(str, p, a)
  ELSE LET mid == (a + b) \div 2
           half == ScanFrom(str, p, a, mid)
       IN IF half.end # 0 THEN half ELSE ScanFrom(str, half, mid + 1, b)

\* findBalancedJson(str): from the first '{', count braces outside strings and
\* return the slice that ends where the depth is back at zero
FindBalancedJson(str) ==
  LET start == IndexOf(str, "{")
      last == ScanFrom(str, [depth |-> 0, inString |-> FALSE, escapeNext |-> FALSE, end |-> 0],
                       start, Len(str))
  IN IF start = 0 THEN NotFound
     ELSE IF last.end = 0 THEN NotFound
     ELSE Found(SubSeq(str, start, last.end))

\* JSON values
StrV(chars) == [t |-> "string", s |-> chars, items |-> <<>>]
NumV == [t |-> "number", s |-> <<"1">>, items |-> <<>>]
ArrV(items) == [t |-> "array", s |-> <<>>, items |-> items]
ObjV(members) == [t |-> "object", s |-> <<>>, items |-> members]
Member(key, val) == [k |-> key, val |-> val]
NoValue == [t |-> "undefined", s |-> <<>>, items |-> <<>>]

ParseFail == [ok |-> FALSE, val |-> NoValue, next |-> 0]
Parsed(val, next) == [ok |-> TRUE, val |-> val, next |-> next]

\* The first position from i on that holds no white space
SkipWs(str, i) ==
  CHOOSE j \in i..(Len(str) + 1) :
    /\ j = Len(str) + 1 \/ ~IsWs(str[j])
    /\ \A k \in i..(j - 1) : IsWs(str[k])

\* JSON.parse, strict: a string ends at its first unescaped quote, a backslash
\* escapes a quote or a backslash, a raw line feed is not allowed in a string
RECURSIVE StringBody(_, _, _)
StringBody(str, i, acc) ==
  IF i > Len(str) THEN ParseFail
  ELSE IF str[i] = "\"" THEN Parsed(StrV(acc), i + 1)
  ELSE IF str[i] = "\\"
       THEN IF i + 1 <= Len(str) /\ str[i + 1] \in {"\"", "\\"}
            THEN StringBody(str, i + 2, Append(acc, str[i + 1]))
            ELSE ParseFail
  ELSE IF str[i] = "NL" THEN ParseFail
  ELSE StringBody(str, i + 1, Append(acc, str[i]))

RECURSIVE ParseValue(_, _)
RECURSIVE ParseMembers(_, _, _)
RECURSIVE ParseElements(_, _, _)

\* A value that starts at position i
ParseValue(str, i) ==
  IF i > Len(str) THEN ParseFail
  ELSE IF str[i] = "\"" THEN StringBody(str, i + 1, <<>>)
  ELSE IF str[i] = "1" THEN Parsed(NumV, i + 1)
  ELSE IF str[i] = "{"
       THEN LET j == SkipWs(str, i + 1)
            IN IF j <= Len(str) /\ str[j] = "}" THEN Parsed(ObjV(<<>>), j + 1)
               ELSE ParseMembers(str, j, <<>>)
  ELSE IF str[i] = "["
       THEN LET j == SkipWs(str, i + 1)
            IN IF j <= Len(str) /\ str[j] = "]" THEN Parsed(ArrV(<<>>), j + 1)
               ELSE ParseElements(str, j, <<>>)
  ELSE ParseFail

\* "key": value pairs up to the closing brace; a comma must be followed by a pair
ParseMembers(str, i, acc) ==
  IF i > Len(str) \/ str[i] # "\"" THEN ParseFail
  ELSE LET key == StringBody(str, i + 1, <<>>)
       IN IF ~key.ok THEN ParseFail
          ELSE LET c == SkipWs(str, key.next)
               IN IF c > Len(str) \/ str[c] # ":" THEN ParseFail
                  ELSE LET v == ParseValue(str, SkipWs(str, c + 1))
                       IN IF ~v.ok THEN ParseFail
                          ELSE LET e == SkipWs(str, v.next)
                                   more == Append(acc, Member(key.val.s, v.val))
                               IN IF e > Len(str) THEN ParseFail
                                  ELSE IF str[e] = "}" THEN Parsed(ObjV(more), e + 1)
                                  ELSE IF str[e] = ","
                                       THEN ParseMembers(str, SkipWs(str, e + 1), more)
                                  ELSE ParseFail

\* Values up to the closing bracket; a comma must be followed by a value
ParseElements(str, i, acc) ==
  LET v == ParseValue(str, i)
  IN IF ~v.ok THEN ParseFail
     ELSE LET e == SkipWs(str, v.next)
              more == Append(acc, v.val)
          IN IF e > Len(str) THEN ParseFail
             ELSE IF str[e] = "]" THEN Parsed(ArrV(more), e + 1)
             ELSE IF str[e] = "," THEN ParseElements(str, SkipWs(str, e + 1), more)
             ELSE ParseFail

JsonParse(str) ==
  LET v == ParseValue(str, SkipWs(str, 1))
  IN IF v.ok /\ SkipWs(str, v.next) > Len(str) THEN v ELSE ParseFail

\* JSON.stringify: quotes and backslashes inside strings are escaped
Escape(chars) ==
  LET F[i \in 0..Len(chars)] ==
        IF i = 0 THEN <<>>
        ELSE IF chars[i] \in {"\"", "\\"} THEN F[i - 1] \o <<"\\", chars[i]>>
        ELSE Append(F[i - 1], chars[i])
  IN F[Len(chars)]

Quoted(chars) == <<"\"">> \o Escape(chars) \o <<"\"">>

RECURSIVE Stringify(_)
RECURSIVE StringifyItems(_, _)
Stringify(v) ==
  CASE v.t = "string" -> Quoted(v.s)
    [] v.t = "number" -> v.s
    [] v.t = "array" -> <<"[">> \o StringifyItems(v.items, FALSE) \o <<"]">>
    [] v.t = "object" -> <<"{">> \o StringifyItems(v.items, TRUE) \o <<"}">>

StringifyItems(items, members) ==
  IF items = <<>> THEN <<>>
  ELSE LET one == IF members
                  THEN Quoted(items[1].k) \o <<":">> \o Stringify(items[1].val)
                  ELSE Stringify(items[1])
       IN IF Len(items) = 1 THEN one
          ELSE one \o <<",">> \o StringifyItems(Tail(items), members)

\* parsed.key: the value of the last member with that key
Get(obj, key) ==
  LET at == {i \in 1..Len(obj.items) : obj.items[i].k = key}
  IN IF obj.t # "object" \/ at = {} THEN NoValue
     ELSE obj.items[CHOOSE i \in at : \A j \in at : j <= i].val

\* JS truthiness of a JSON value
TruthyValue(v) == v.t \in {"object", "array", "number"} \/ (v.t = "string" /\ v.s # <<>>)

\* { toolCalls: Array.isArray(parsed.tool_calls) ? parsed.tool_calls : [],
\*   message: parsed.message || 'Done' }
ReplyOf(parsed) ==
  [toolCalls |-> IF Get(parsed, <<"tool_calls">>).t = "array"
                 THEN Get(parsed, <<"tool_calls">>).items ELSE <<>>,
   message |-> IF TruthyValue(Get(parsed, <<"message">>))
               THEN Get(parsed, <<"message">>) ELSE StrV(<<"Done">>)]

\* A fallback that gives the default message instead of the text
DoneReply(text) == [toolCalls |-> <<>>, message |-> [t |-> "string", s |-> <<"Done">>, items |-> <<>>]]

PlainReply(text) == [toolCalls |-> <<>>, message |-> StrV(text)]

\* str.trim()
Trim(str) ==
  LET keep == {i \in 1..Len(str) : ~IsWs(str[i])}
  IN IF keep = {} THEN <<>>
     ELSE SubSeq(str, CHOOSE i \in keep : \A j \in keep : i <= j,
                      CHOOSE i \in keep : \A j \in keep : j <= i)

\* response.match(/```(?:json)?\s*([\s\S]*?)```/): the text between the first
\* fence and the next one, after an optional "json" and white space
CodeBlockMatch(response) ==
  LET open == IndexOf(response, "FENCE")
      afterTag == IF open # 0 /\ open + 1 <= Len(response) /\ response[open + 1] = "json"
                  THEN open + 2 ELSE open + 1
      rest == SubSeq(response, afterTag, Len(response))
      close == IndexOf(rest, "FENCE")
  IN IF open = 0 \/ close = 0 THEN NotFound
     ELSE Found(SubSeq(rest, SkipWs(rest, 1), close - 1))

\* str.replace(/,\s*X/g, 'X'): every comma that is followed by white space
\* and then the closer goes, together with that white space (two matches never
\* overlap, since a match holds no comma but its first character)
StripCommaBefore(str, closer) ==
  LET Hit(i) == /\ str[i] = ","
                /\ SkipWs(str, i + 1) <= Len(str)
                /\ str[SkipWs(str, i + 1)] = closer
      keep == {k \in 1..Len(str) : ~\E i \in 1..k : Hit(i) /\ k < SkipWs(str, i + 1)}
  IN [n \in 1..Cardinality(keep) |->
        str[CHOOSE k \in keep : Cardinality({j \in keep : j <= k}) = n]]

FixedJson(balancedJson) ==
  StripCommaBefore(StripCommaBefore(balancedJson, "}"), "]")

\* parseToolCalls(response), on the text of the reply
ParseReply(response) ==
  LET codeBlockMatch == CodeBlockMatch(response)
      jsonStr == IF codeBlockMatch.found
                 THEN FindBalancedJson(Trim(codeBlockMatch.text)) ELSE NotFound
      first == IF jsonStr.found THEN JsonParse(jsonStr.text) ELSE ParseFail
      balancedJson == FindBalancedJson(response)
      second == IF balancedJson.found THEN JsonParse(balancedJson.text) ELSE ParseFail
      third == IF balancedJson.found THEN JsonParse(FixedJson(balancedJson.text))
               ELSE ParseFail
  IN IF response = <<>> THEN PlainReply(<<"No response">>)
     ELSE IF first.ok THEN ReplyOf(first.val)
     ELSE IF second.ok THEN ReplyOf(second.val)
     ELSE IF third.ok THEN ReplyOf(third.val)
     ELSE PlainReply(response)

\* --------------------------------------------------------------- state
VARIABLES
  blocks,          \* LessonBuilder: the document's blocks, in order
  lessonTitle,     \* LessonBuilder: title
  lessonIcon,      \* LessonBuilder: icon
  nextId,          \* the next id generateBlockId() hands out
  messages,        \* AIChatPanel: the session's turns
  input,           \* AIChatPanel: the text in the input box
  isLoading,       \* AIChatPanel: busy flag
  abortRef,        \* abortControllerRef.current is set
  aborted,         \* signal.aborted of the turn's controller
  closureBlocks,   \* the blocks prop executeTool closed over
  pc,              \* where handleSend / runAgentWithTools / chatStream stand
  failure,         \* the error a rejected runAgentWithTools carries
  wire,            \* response symbols the network holds, not yet read
  linesSent,       \* lines the backend has written
  srvClosed,       \* the backend has closed the response body
  buffer,          \* chatStream: the unfinished last line
  responseChunks,  \* chatStream: the deltas pushed so far
  fullResponse,    \* runAgentWithTools: what onDone delivered
  streamRet,       \* what chatStream returned
  toolCalls,       \* parseToolCalls(fullResponse).toolCalls
  message,         \* parseToolCalls(fullResponse).message
  parallelCalls,   \* positions in toolCalls of the parallel-safe calls
  sequentialCalls, \* positions in toolCalls of the other calls
  parOutcomes,     \* outcome of each parallel handler, awaiting its continuation
  parallelResults, \* results of the settled parallel callbacks
  seqPos,          \* the next entry of sequentialCalls the loop takes
  seqActive,       \* position in toolCalls of the awaited handler, 0 if none
  seqOutcome,      \* outcome of the awaited handler
  subChunks,       \* chunk callbacks the awaited sub-request has made
  subAborted,      \* abortAll() hit the sub-request's controller
  toolResults,     \* runAgentWithTools: the result list
  started,         \* history: positions of the entries whose handler was started
  active,          \* history: started handlers that have not returned yet
  finished,        \* history: positions of the entries whose handler has ended
  threw,           \* history: positions of the entries whose handler threw
  abortPc,         \* history: pc when the handle was signalled
  addrLog,         \* history: what each positional command addressed
  resultCalls,     \* history: the position in toolCalls of each result's call
  execBlocks,      \* history: the blocks as the last handler step left them
  body,            \* history: every symbol the backend has written to the response
  reads,           \* history: how many symbols each reader.read() delivered
  chunkLog,        \* history: the (delta, accumulated) pairs onChunk was called with
  origin,          \* how the text handed to the parser was put together
  replyText,       \* the text handed to findBalancedJson / parseToolCalls
  balancedJson,    \* findBalancedJson(replyText)
  reply,           \* parseToolCalls(replyText)
  jsonPc           \* which of the two has been applied to the text

docVars == <<blocks, lessonTitle, lessonIcon, nextId>>
panelVars == <<messages, input, isLoading, abortRef, closureBlocks>>
netVars == <<wire, linesSent, srvClosed, body>>
readerVars == <<buffer, responseChunks, fullResponse, streamRet, reads, chunkLog>>
parseVars == <<toolCalls, message, parallelCalls, sequentialCalls>>
parVars == <<parOutcomes, parallelResults>>
seqVars == <<seqPos, seqActive, seqOutcome, subChunks, subAborted>>
histVars == <<started, active, finished, threw, addrLog, resultCalls, execBlocks>>

\* ------------------------------------------ the throttled progress updates
\* const THROTTLE_MS = 300
THROTTLE_MS == 300

\* Date.now() is read in steps of this many milliseconds
TickMs == 100

\* Date.now() when the panel mounts: far from the 0 the refs start at
MountedAt == 1000

\* How far the clock runs and how many events a turn raises
MaxTicks == 6
MaxEvents == 3

VARIABLES
  clock,                     \* Date.now()
  lastProgressUpdateRef,     \* when throttledProgressUpdate last set the content
  lastToolUpdateRef,         \* when throttledToolUpdate last set the content
  pendingProgressUpdateRef,  \* the timer throttledProgressUpdate has queued
  pendingToolUpdateRef,      \* the timer throttledToolUpdate has queued
  thinkingShown,             \* the status message is in the message list
  thinkingContent,           \* the content of the status message
  turnPhase,                 \* where the turn stands: stream, tools, done, unmounted
  visibleLog,                \* history: the updates of the status message, with their time
  eventLog                   \* history: the progress events, with their time

throttleVars ==
  <<clock, lastProgressUpdateRef, lastToolUpdateRef, pendingProgressUpdateRef,
    pendingToolUpdateRef, thinkingShown, thinkingContent, turnPhase, visibleLog, eventLog>>

NoTimer == [set |-> FALSE, due |-> 0, content |-> ""]
Timer(due, content) == [set |-> TRUE, due |-> due, content |-> content]

\* The panel is mounted, the turn has put up its status message 'Thinking...'
ThrottleIdle ==
  /\ clock = MountedAt
  /\ lastProgressUpdateRef = 0
  /\ lastToolUpdateRef = 0
  /\ pendingProgressUpdateRef = NoTimer
  /\ pendingToolUpdateRef = NoTimer
  /\ thinkingShown = TRUE
  /\ thinkingContent = "Thinking..."
  /\ turnPhase = "stream"
  /\ visibleLog = <<>>
  /\ eventLog = <<>>

\* ------------------------------------------- the editor's document operations
\* How many blocks the editor and the panel add, and how long the document gets
MaxAdds == 2
MaxBlocks == 3

VARIABLES
  lastOp,      \* history: the last operation on the blocks and its arguments
  prevBlocks   \* history: the blocks before the last operation

docHistVars == <<lastOp, prevBlocks>>

Op(name, id, afterId) == [name |-> name, id |-> id, afterId |-> afterId]
NoOp == Op("none", 0, 0)

\* No document operation has been recorded
DocIdle ==
  /\ lastOp = NoOp
  /\ prevBlocks = <<>>

\* ------------------------------------------------ the paths of handleSend
\* How many turns a session sees, and how many sections the fast path streams
MaxTurns == 2
MaxSections == 2

VARIABLES
  panelFile,     \* the file whose chat panel is mounted
  useAgentMode,  \* the agent-mode setting
  turns,         \* how many turns have begun: the suffix of generateMessageId()
  streams,       \* the section streams of the fast path and how each stands
  savedHistory,  \* the list the save effect last handed to saveChatHistory
  lastWrite,     \* history: the turn of the last block update, and whether it ran
  inFlight,      \* history: the calls of handleSend that have not reached finally
  ignored        \* history: a submission returned at once because of the busy flag

turnVars ==
  <<panelFile, useAgentMode, turns, streams, savedHistory, lastWrite, inFlight, ignored>>

NoWrite == [turn |-> 0, during |-> TRUE]

\* The panel of AIChatPanel.jsx in agent mode, before any turn
TurnIdle ==
  /\ panelFile = "AIChatPanel.jsx"
  /\ useAgentMode = TRUE
  /\ turns = 0
  /\ streams = {}
  /\ savedHistory = <<>>
  /\ lastWrite = NoWrite
  /\ inFlight = 0
  /\ ignored = FALSE

\* ------------------------------------------- the stored chat of each lesson
VARIABLES
  lessonId,         \* the lessonId prop of the mounted panel
  prevLessonIdRef,  \* prevLessonIdRef.current
  chatStorage,      \* localStorage: the stored turns of each lesson
  mounted,          \* a panel is mounted
  fresh             \* history: the session is as the mount left it

mountVars == <<lessonId, prevLessonIdRef, chatStorage, mounted, fresh>>

\* The lessons of the library, and the lessonId of an editor without a lesson
LessonIds == {"L1", "L2"}
NoLessonId == "undefined"

\* No panel is looked at on its own, nothing is stored
MountIdle ==
  /\ lessonId = NoLessonId
  /\ prevLessonIdRef = NoLessonId
  /\ chatStorage = [l \in LessonIds |-> <<>>]
  /\ mounted = FALSE
  /\ fresh = FALSE

\* ------------------------------------------------- the library of lessons
\* How many lessons are created and how many edits are made
MaxCreated == 1
MaxEdits == 2

VARIABLES
  lessons,         \* App: data.lessons
  activeLessonId,  \* App: data.activeLessonId
  lessonStorage,   \* localStorage: what saveData last wrote
  timeoutRef,      \* useDebouncedCallback: the pending timer and its arguments
  created,         \* history: how many lessons were created
  edits            \* history: how many edits were made

appVars == <<lessons, activeLessonId, lessonStorage, timeoutRef, created, edits>>

Lesson(id, title) == [id |-> id, title |-> title]
Data(ls, id) == [lessons |-> ls, activeLessonId |-> id]
NoTimeout == [set |-> FALSE, lessons |-> <<>>, activeLessonId |-> ""]

\* loadData(): the library as it was stored, two lessons, the first one active
AppIdle ==
  /\ lessons = <<Lesson("L1", "a"), Lesson("L2", "a")>>
  /\ activeLessonId = "L1"
  /\ lessonStorage = Data(lessons, activeLessonId)
  /\ timeoutRef = NoTimeout
  /\ created = 0
  /\ edits = 0

\* The variables of the specifications added for the panel's other paths
extraVars == <<docHistVars, turnVars, mountVars, appVars>>
ExtraIdle == DocIdle /\ TurnIdle /\ MountIdle /\ AppIdle

jsonVars == <<origin, replyText, balancedJson, reply, jsonPc>>

\* The variables of the chat panel and the document
panelModelVars ==
  <<docVars, panelVars, netVars, readerVars, parseVars, parVars, seqVars,
    histVars, aborted, abortPc, pc, failure, toolResults>>

\* The variables of the functions that are checked on their own
auxVars == <<jsonVars, throttleVars, extraVars>>

vars == <<panelModelVars, auxVars>>

\* createNewLesson(): a heading and a text block; a stored lesson may hold one
InitialBlocks ==
  { <<Block(1, "heading", "Welcome", NoLanguage)>>,
    <<Block(1, "heading", "Welcome", NoLanguage), Block(2, "text", "Start", NoLanguage)>> }

NoOutcome == Outcome(Doc(<<>>, "", "", 0), "none", FALSE, "", 0)
NoReturn == [kind |-> "none", text |-> <<>>]

\* The panel is mounted and idle
\* useState([]) and the load effect: the list stays empty when the panel mounts
\* with a lesson id (the effect returns early), and holds the welcome message
\* when it mounts without one
InitialMessages == {<<>>, <<WelcomeMsg>>}

PanelInit ==
  /\ blocks \in InitialBlocks
  /\ lessonTitle = "Untitled"
  /\ lessonIcon = "book"
  /\ nextId = 3
  /\ messages \in InitialMessages
  /\ input = "ask"
  /\ isLoading = FALSE
  /\ abortRef = FALSE
  /\ aborted = FALSE
  /\ closureBlocks = blocks
  /\ pc = "idle"
  /\ failure = "none"
  /\ wire = <<>>
  /\ linesSent = 0
  /\ srvClosed = FALSE
  /\ buffer = <<>>
  /\ responseChunks = <<>>
  /\ fullResponse = <<>>
  /\ streamRet = NoReturn
  /\ toolCalls = <<>>
  /\ message = <<>>
  /\ parallelCalls = <<>>
  /\ sequentialCalls = <<>>
  /\ parOutcomes = <<>>
  /\ parallelResults = <<>>
  /\ seqPos = 1
  /\ seqActive = 0
  /\ seqOutcome = NoOutcome
  /\ subChunks = 0
  /\ subAborted = FALSE
  /\ toolResults = <<>>
  /\ started = <<>>
  /\ active = {}
  /\ finished = {}
  /\ threw = {}
  /\ abortPc = "none"
  /\ addrLog = <<>>
  /\ resultCalls = <<>>
  /\ execBlocks = blocks
  /\ body = <<>>
  /\ reads = <<>>
  /\ chunkLog = <<>>

NoOrigin ==
  [kind |-> "none", before |-> <<>>, value |-> NoValue, after |-> <<>>,
   cut |-> 0, fence |-> FALSE]

\* No text is being parsed on its own
JsonIdle ==
  /\ origin = NoOrigin
  /\ replyText = <<>>
  /\ balancedJson = NotFound
  /\ reply = PlainReply(<<>>)
  /\ jsonPc = "idle"

Init == PanelInit /\ JsonIdle /\ ThrottleIdle /\ ExtraIdle

CurDoc == Doc(blocks, lessonTitle, lessonIcon, nextId)

SetDoc(d) ==
  /\ blocks' = d.blocks
  /\ lessonTitle' = d.title
  /\ lessonIcon' = d.icon
  /\ nextId' = d.nextId

\* ------------------------------------------------------------ handleSend
\* handleSend up to the fetch inside chatStream: the user turn and the status
\* turn are added, the busy flag and the cancellation handle are set
HandleSend ==
  /\ UNCHANGED auxVars
  /\ pc = "idle"
  /\ input # ""
  /\ ~isLoading
  /\ messages' = Append(WithoutStatus(Append(messages, UserMsg)), ThinkingMsg)
  /\ input' = ""
  /\ isLoading' = TRUE
  /\ abortRef' = TRUE
  /\ closureBlocks' = blocks
  /\ pc' = "fetch"
  /\ UNCHANGED <<docVars, netVars, readerVars, parseVars, parVars, seqVars,
                 histVars, aborted, abortPc, failure, toolResults>>

\* The turn waits for the network: for fetch, for a read, or for the sub-request
\* of a stream_html_block.  Every other await of the turn is resumed by the
\* microtask queue before the browser runs another event, so only here can the
\* event that signals the handle come in between.
AwaitsNetwork ==
  \/ pc \in {"fetch", "read"}
  \/ pc = "seq" /\ seqOutcome.how = "await"

\* The cleanup effect: ollamaService.abortAll() aborts the controllers chatStream
\* made itself (a sub-request's), abortControllerRef.current.abort() the turn's
Abort ==
  /\ UNCHANGED auxVars
  /\ abortRef
  /\ ~aborted
  /\ AwaitsNetwork
  /\ aborted' = TRUE
  /\ abortPc' = pc
  /\ subAborted' = (seqOutcome.how = "await")
  /\ UNCHANGED <<docVars, panelVars, netVars, readerVars, parseVars, parVars,
                 seqPos, seqActive, seqOutcome, subChunks,
                 histVars, pc, failure, toolResults>>

\* ------------------------------------------------------------- backend
\* The backend writes one more whole line
ServerSendLine ==
  /\ UNCHANGED auxVars
  /\ pc = "read"
  /\ ~srvClosed
  /\ linesSent < MaxLines
  /\ Len(wire) < MaxInFlight
  /\ \E k \in LineKinds :
       /\ wire' = wire \o LineSyms(k) \o <<"NL">>
       /\ body' = body \o LineSyms(k) \o <<"NL">>
  /\ linesSent' = linesSent + 1
  /\ UNCHANGED <<docVars, panelVars, srvClosed, readerVars, parseVars, parVars,
                 seqVars, histVars, aborted, abortPc, pc, failure, toolResults>>

\* The response ends inside a line: its first n pieces, no line feed
ServerCutLine ==
  /\ UNCHANGED auxVars
  /\ pc = "read"
  /\ ~srvClosed
  /\ linesSent < MaxLines
  /\ Len(wire) < MaxInFlight
  /\ \E k \in LineKinds : \E n \in 1..Len(LineSyms(k)) :
       /\ wire' = wire \o SubSeq(LineSyms(k), 1, n)
       /\ body' = body \o SubSeq(LineSyms(k), 1, n)
  /\ linesSent' = linesSent + 1
  /\ srvClosed' = TRUE
  /\ UNCHANGED <<docVars, panelVars, readerVars, parseVars, parVars,
                 seqVars, histVars, aborted, abortPc, pc, failure, toolResults>>

\* The response ends after a whole line
ServerClose ==
  /\ UNCHANGED auxVars
  /\ pc = "read"
  /\ ~srvClosed
  /\ srvClosed' = TRUE
  /\ UNCHANGED <<docVars, panelVars, wire, linesSent, body, readerVars, parseVars, parVars,
                 seqVars, histVars, aborted, abortPc, pc, failure, toolResults>>

\* ---------------------------------------------------------- chatStream
\* return fullResponse after onDone(fullResponse): the reader is done with the
\* response, the promise runAgentWithTools awaits resolves
ReturnText(chunks, ms) ==
  /\ responseChunks' = chunks
  /\ fullResponse' = chunks
  /\ streamRet' = [kind |-> "text", text |-> chunks]
  /\ messages' = ms
  /\ buffer' = <<>>
  /\ wire' = <<>>
  /\ pc' = "parse"

\* catch (e) { if (e.name === 'AbortError') return null }: onDone never runs
ReturnNull ==
  /\ streamRet' = [kind |-> "null", text |-> <<>>]
  /\ buffer' = <<>>
  /\ wire' = <<>>
  /\ pc' = "parse"
  /\ UNCHANGED <<responseChunks, fullResponse, messages>>

\* A reader that logs the failure and returns the text it has
TransportSwallowed ==
  /\ failure' = "transport"
  /\ streamRet' = [kind |-> "text", text |-> responseChunks]
  /\ fullResponse' = responseChunks
  /\ buffer' = <<>>
  /\ wire' = <<>>
  /\ pc' = "parse"
  /\ UNCHANGED <<responseChunks, messages>>

\* throw e: runAgentWithTools rethrows what is no AbortError
ThrowTransport ==
  /\ failure' = "transport"
  /\ buffer' = <<>>
  /\ wire' = <<>>
  /\ pc' = "rejected"
  /\ UNCHANGED <<responseChunks, fullResponse, streamRet, messages>>

\* await fetch(...) resolves with response.ok
FetchOk ==
  /\ UNCHANGED auxVars
  /\ pc = "fetch"
  /\ ~aborted
  /\ pc' = "read"
  /\ UNCHANGED <<docVars, panelVars, netVars, readerVars, parseVars, parVars,
                 seqVars, histVars, aborted, abortPc, failure, toolResults>>

\* fetch rejects (backend unreachable) or answers with a non-2xx status
FetchFail ==
  /\ UNCHANGED auxVars
  /\ pc = "fetch"
  /\ ~aborted
  /\ ThrowTransport
  /\ UNCHANGED <<docVars, input, isLoading, abortRef, closureBlocks, linesSent,
                 srvClosed, body, reads, chunkLog, parseVars, parVars, seqVars, histVars, aborted, abortPc,
                 toolResults>>

\* fetch rejects with an AbortError once the signal is aborted
FetchAbort ==
  /\ UNCHANGED auxVars
  /\ pc = "fetch"
  /\ aborted
  /\ ReturnNull
  /\ UNCHANGED <<docVars, input, isLoading, abortRef, closureBlocks, linesSent,
                 srvClosed, body, reads, chunkLog, parseVars, parVars, seqVars, histVars, aborted, abortPc,
                 failure, toolResults>>

\* reader.read() delivers the next n symbols; the buffered line is completed,
\* every whole line is handled, a done line ends the stream
ReadValue ==
  /\ UNCHANGED auxVars
  /\ pc = "read"
  /\ ~aborted
  /\ wire # <<>>
  /\ \E n \in 1..Len(wire) :
       LET parts == SplitLines(buffer \o SubSeq(wire, 1, n))
           r == ProcessLines(AllButLast(parts), responseChunks, messages)
       IN IF r.done
          THEN /\ ReturnText(r.chunks, r.msgs)
               /\ reads' = Append(reads, n)
               /\ chunkLog' = chunkLog \o r.log
          ELSE /\ wire' = SubSeq(wire, n + 1, Len(wire))
               /\ buffer' = Last(parts)
               /\ responseChunks' = r.chunks
               /\ messages' = r.msgs
               /\ reads' = Append(reads, n)
               /\ chunkLog' = chunkLog \o r.log
               /\ UNCHANGED <<fullResponse, streamRet, pc>>
  /\ UNCHANGED <<docVars, input, isLoading, abortRef, closureBlocks, linesSent,
                 srvClosed, body, parseVars, parVars, seqVars, histVars, aborted, abortPc,
                 failure, toolResults>>

\* reader.read() still delivers a value although the signal is aborted: the
\* check after the read cancels the reader and breaks, the value is dropped
ReadValueAborted ==
  /\ UNCHANGED auxVars
  /\ pc = "read"
  /\ aborted
  /\ wire # <<>>
  /\ ReturnText(FlushBuffer(buffer, responseChunks), messages)
  /\ UNCHANGED <<docVars, input, isLoading, abortRef, closureBlocks, linesSent,
                 srvClosed, body, reads, chunkLog, parseVars, parVars, seqVars, histVars, aborted, abortPc,
                 failure, toolResults>>

\* reader.read() reports done: the response has ended
ReadDone ==
  /\ UNCHANGED auxVars
  /\ pc = "read"
  /\ wire = <<>>
  /\ srvClosed
  /\ ReturnText(FlushBuffer(buffer, responseChunks), messages)
  /\ UNCHANGED <<docVars, input, isLoading, abortRef, closureBlocks, linesSent,
                 srvClosed, body, reads, chunkLog, parseVars, parVars, seqVars, histVars, aborted, abortPc,
                 failure, toolResults>>

\* reader.read() rejects: the connection broke in mid-stream
ReadError ==
  /\ UNCHANGED auxVars
  /\ pc = "read"
  /\ ~aborted
  /\ ThrowTransport
  /\ UNCHANGED <<docVars, input, isLoading, abortRef, closureBlocks, linesSent,
                 srvClosed, body, reads, chunkLog, parseVars, parVars, seqVars, histVars, aborted, abortPc,
                 toolResults>>

\* reader.read() rejects with an AbortError once the signal is aborted
ReadAbortError ==
  /\ UNCHANGED auxVars
  /\ pc = "read"
  /\ aborted
  /\ ReturnNull
  /\ UNCHANGED <<docVars, input, isLoading, abortRef, closureBlocks, linesSent,
                 srvClosed, body, reads, chunkLog, parseVars, parVars, seqVars, histVars, aborted, abortPc,
                 failure, toolResults>>

\* ------------------------------------------------------ runAgentWithTools
\* parseToolCalls(response): the deltas are opaque here, so what the reply text
\* holds is an input.  An empty response gives 'No response'; a payload found by
\* one of the strategies gives its tool_calls (any list) and its message; no
\* payload gives no calls and the text itself as the message.
ParseToolCalls(response) ==
  IF response = <<>>
  THEN { [toolCalls |-> <<>>, message |-> <<"No response">>] }
  ELSE { [toolCalls |-> l, message |-> <<"Done">>] : l \in CallLists }
         \cup { [toolCalls |-> <<>>, message |-> response] }

\* toolCalls.filter(c => parallelizableTools.includes(c.tool)), as positions
FilterCalls(calls, parallel) ==
  LET F[i \in 0..Len(calls)] ==
        IF i = 0 THEN <<>>
        ELSE IF (calls[i].tool \in ParallelizableTools) = parallel
             THEN Append(F[i-1], i)
             ELSE F[i-1]
  IN F[Len(calls)]

\* c.tool of null throws a TypeError inside the filter callback
FilterThrows(calls) == \E i \in 1..Len(calls) : calls[i].kind = "null"

\* The continuation of "await chatStream": parse the reply, split the calls
Parse ==
  /\ UNCHANGED auxVars
  /\ pc = "parse"
  /\ \E p \in ParseToolCalls(fullResponse) :
       /\ toolCalls' = p.toolCalls
       /\ message' = p.message
       /\ IF FilterThrows(p.toolCalls)
          THEN /\ failure' = "TypeError"
               /\ pc' = "rejected"
               /\ UNCHANGED <<parallelCalls, sequentialCalls>>
          ELSE /\ parallelCalls' =
                    FilterCalls(p.toolCalls, TRUE)
               /\ sequentialCalls' =
                    FilterCalls(p.toolCalls, FALSE)
               /\ pc' = "dispatch"
               /\ UNCHANGED failure
  /\ responseChunks' = <<>>
  /\ body' = <<>>
  /\ reads' = <<>>
  /\ chunkLog' = <<>>
  /\ UNCHANGED <<docVars, panelVars, wire, linesSent, srvClosed, buffer, fullResponse,
                 streamRet, parVars,
                 seqVars, histVars, aborted, abortPc, toolResults>>

\* An executor that never reads the signal
AbortIgnored == FALSE

\* signal?.aborted, as the executor reads it before it starts commands
AbortObserved == aborted

\* parallelCalls.map(async call => ...): every callback runs its handler up to
\* the await, in list order
RunParallel(calls, closure, doc) ==
  LET F[i \in 0..Len(calls)] ==
        IF i = 0 THEN [doc |-> doc, outs |-> <<>>]
        ELSE LET c == toolCalls[calls[i]]
                 o == ExecuteTool(c.tool, c.params, closure, F[i-1].doc)
             IN [doc |-> o.doc, outs |-> Append(F[i-1].outs, o)]
  IN F[Len(calls)]

Throwers(calls, outs) == { calls[i] : i \in { j \in 1..Len(calls) : outs[j].how = "throw" } }

Range(q) == { q[i] : i \in 1..Len(q) }

ParStart ==
  /\ UNCHANGED auxVars
  /\ pc = "dispatch"
  /\ Len(parallelCalls) > 0
  /\ ~AbortObserved
  /\ LET r == RunParallel(parallelCalls, closureBlocks, CurDoc)
     IN /\ SetDoc(r.doc)
        /\ parOutcomes' = r.outs
        /\ threw' = threw \cup Throwers(parallelCalls, r.outs)
        /\ execBlocks' = r.doc.blocks
  /\ started' = started \o parallelCalls
  /\ active' = active \cup Range(parallelCalls)
  /\ pc' = "parAwait"
  /\ UNCHANGED <<panelVars, netVars, readerVars, parseVars, parallelResults, seqVars,
                 finished, addrLog, resultCalls, aborted, abortPc, failure, toolResults>>

\* No parallel-safe call, or the handle is signalled: the batch is skipped
ParSkip ==
  /\ UNCHANGED auxVars
  /\ pc = "dispatch"
  /\ ~(Len(parallelCalls) > 0 /\ ~AbortObserved)
  /\ pc' = "seq"
  /\ UNCHANGED <<docVars, panelVars, netVars, readerVars, parseVars, parVars, seqVars,
                 histVars, aborted, abortPc, failure, toolResults>>

Result(tool, success, result) ==
  [tool |-> tool, success |-> success, result |-> result]

\* { tool: toolName, ...result }, or the catch block's
\* { tool: toolName, success: false, result: toolError.message }
ResultOf(toolName, o) ==
  IF o.how = "throw"
  THEN Result(toolName, FALSE, o.result)
  ELSE Result(toolName, o.success, o.result)

\* The continuation of the next callback of the batch (they resume in order)
ParSettle ==
  /\ UNCHANGED auxVars
  /\ pc = "parAwait"
  /\ Len(parallelResults) < Len(parallelCalls)
  /\ LET i == Len(parallelResults) + 1
     IN /\ parallelResults' =
             Append(parallelResults,
                    ResultOf(toolCalls[parallelCalls[i]].tool, parOutcomes[i]))
        /\ finished' = finished \cup {parallelCalls[i]}
        /\ active' = active \ {parallelCalls[i]}
  /\ UNCHANGED <<docVars, panelVars, netVars, readerVars, parseVars, parOutcomes, seqVars,
                 started, threw, addrLog, resultCalls, execBlocks, aborted, abortPc, pc,
                 failure, toolResults>>

\* A batch that is started and not awaited
ParallelNotAwaited == TRUE

\* Promise.all resolves when every callback of the batch has settled
ParallelJoined == Len(parallelResults) = Len(parallelCalls)

\* toolResults.push(...parallelResults)
ParJoin ==
  /\ UNCHANGED auxVars
  /\ pc = "parAwait"
  /\ ParallelJoined
  /\ toolResults' = toolResults \o parallelResults
  /\ resultCalls' = resultCalls \o SubSeq(parallelCalls, 1, Len(parallelResults))
  /\ pc' = "seq"
  /\ UNCHANGED <<docVars, panelVars, netVars, readerVars, parseVars, parVars, seqVars,
                 started, active, finished, threw, addrLog, execBlocks, aborted, abortPc,
                 failure>>

\* A loop that calls executeTool without awaiting it
HandlerNotAwaited == TRUE

\* "await executeTool(...)" has returned: the loop body is not inside a handler
HandlerReturned == seqActive = 0

\* What update_block / delete_block address: the id they hand to the document
\* (0 when they reject the index), next to the id at that position of the
\* document as it is when the command starts (0 when there is none)
Addressed(c, closure, bs) ==
  [index |-> c.params.index.n,
   target |-> IF InvalidIndex(c.params.index, closure) THEN 0
              ELSE closure[c.params.index.n + 1].id,
   current |-> IF c.params.index.n < 0 \/ c.params.index.n >= Len(bs) THEN 0
               ELSE bs[c.params.index.n + 1].id]

Positional(c) ==
  c.tool \in {"update_block", "delete_block"} /\ c.params.index.t = "number"

\* for (const call of sequentialCalls) { if (signal?.aborted) break; ...
\*   await executeTool(toolName, params): the handler runs up to its first await
SeqStart ==
  /\ UNCHANGED auxVars
  /\ pc = "seq"
  /\ HandlerReturned
  /\ seqPos <= Len(sequentialCalls)
  /\ ~AbortObserved
  /\ LET i == sequentialCalls[seqPos]
         c == toolCalls[i]
         o == ExecuteTool(c.tool, c.params, closureBlocks, CurDoc)
     IN /\ SetDoc(o.doc)
        /\ seqOutcome' = o
        /\ seqActive' = i
        /\ started' = Append(started, i)
        /\ active' = active \cup {i}
        /\ threw' = IF o.how = "throw" THEN threw \cup {i} ELSE threw
        /\ execBlocks' = o.doc.blocks
        /\ addrLog' = IF Positional(c)
                      THEN Append(addrLog, Addressed(c, closureBlocks, blocks))
                      ELSE addrLog
  /\ seqPos' = seqPos + 1
  /\ subChunks' = 0
  /\ subAborted' = FALSE
  /\ UNCHANGED <<panelVars, netVars, readerVars, parseVars, parVars, finished,
                 resultCalls, aborted, abortPc, pc, failure, toolResults>>

\* The handler's promise settles: toolResults.push(...) in the try or the catch
\* block, and the loop goes on to the next call
PushResult(r) ==
  /\ toolResults' = Append(toolResults, r)
  /\ resultCalls' = Append(resultCalls, seqActive)
  /\ finished' = finished \cup {seqActive}
  /\ active' = active \ {seqActive}
  /\ seqActive' = 0
  /\ seqOutcome' = NoOutcome
  /\ subChunks' = 0
  /\ subAborted' = FALSE

\* A loop without the try/catch around executeTool: what the handler throws
\* rejects runAgentWithTools
SeqFinishRethrows ==
  /\ UNCHANGED auxVars
  /\ pc = "seq"
  /\ seqActive # 0
  /\ seqOutcome.how \in {"return", "throw"}
  /\ IF seqOutcome.how = "throw"
     THEN /\ failure' = "TypeError"
          /\ pc' = "rejected"
          /\ active' = active \ {seqActive}
          /\ seqActive' = 0
          /\ seqOutcome' = NoOutcome
          /\ UNCHANGED <<toolResults, resultCalls, finished, subChunks, subAborted>>
     ELSE /\ PushResult(ResultOf(toolCalls[seqActive].tool, seqOutcome))
          /\ UNCHANGED <<pc, failure>>
  /\ UNCHANGED <<docVars, panelVars, netVars, readerVars, parseVars, parVars, seqPos,
                 started, threw, addrLog, execBlocks, aborted, abortPc>>

SeqFinish ==
  /\ UNCHANGED auxVars
  /\ pc = "seq"
  /\ seqActive # 0
  /\ seqOutcome.how \in {"return", "throw"}
  /\ PushResult(ResultOf(toolCalls[seqActive].tool, seqOutcome))
  /\ UNCHANGED <<docVars, panelVars, netVars, readerVars, parseVars, parVars, seqPos,
                 started, threw, addrLog, execBlocks, aborted, abortPc, pc, failure>>

\* The text a sub-request has accumulated after n chunks, cleaned to HTML
HtmlAfter(n) == IF n = 1 THEN "html1" ELSE IF n = 2 THEN "html2" ELSE "html3"

\* stream_html_block: a chunk callback of the sub-request rewrites the
\* placeholder block (or changes nothing while the text is only white space)
SubChunk ==
  /\ UNCHANGED auxVars
  /\ pc = "seq"
  /\ seqActive # 0
  /\ seqOutcome.how = "await"
  /\ ~subAborted
  /\ subChunks < MaxSubChunks
  /\ subChunks' = subChunks + 1
  /\ \/ blocks' = UpdateBlock(blocks, seqOutcome.subBlock, HtmlAfter(subChunks + 1))
     \/ blocks' = blocks
  /\ execBlocks' = blocks'
  /\ UNCHANGED <<lessonTitle, lessonIcon, nextId, panelVars, netVars, readerVars,
                 parseVars, parVars, seqPos, seqActive, seqOutcome, subAborted,
                 started, active, finished, threw, addrLog, resultCalls,
                 aborted, abortPc, pc, failure, toolResults>>

\* stream_html_block: the sub-request's chatStream returns (its text, or null
\* after abortAll()): { success: true, result: 'Content streamed to canvas' }
SubDone ==
  /\ UNCHANGED auxVars
  /\ pc = "seq"
  /\ seqActive # 0
  /\ seqOutcome.how = "await"
  /\ PushResult(Result(toolCalls[seqActive].tool, TRUE, seqOutcome.result))
  /\ UNCHANGED <<docVars, panelVars, netVars, readerVars, parseVars, parVars, seqPos,
                 started, threw, addrLog, execBlocks, aborted, abortPc, pc, failure>>

\* stream_html_block: the sub-request's chatStream throws: the block shows the
\* failure, { success: false, result: streamError.message }
SubFail ==
  /\ UNCHANGED auxVars
  /\ pc = "seq"
  /\ seqActive # 0
  /\ seqOutcome.how = "await"
  /\ ~subAborted
  /\ blocks' = UpdateBlock(blocks, seqOutcome.subBlock, FailedHtml)
  /\ execBlocks' = blocks'
  /\ PushResult(Result(toolCalls[seqActive].tool, FALSE, "Ollama error"))
  /\ UNCHANGED <<lessonTitle, lessonIcon, nextId, panelVars, netVars, readerVars,
                 parseVars, parVars, seqPos, started, threw, addrLog, aborted, abortPc,
                 pc, failure>>

\* if (signal?.aborted) break
SeqBreak ==
  /\ UNCHANGED auxVars
  /\ pc = "seq"
  /\ HandlerReturned
  /\ seqPos <= Len(sequentialCalls)
  /\ AbortObserved
  /\ pc' = "resolved"
  /\ UNCHANGED <<docVars, panelVars, netVars, readerVars, parseVars, parVars, seqVars,
                 histVars, aborted, abortPc, failure, toolResults>>

\* The loop has taken every call: return { message, thought, toolResults, toolCalls }
SeqEnd ==
  /\ UNCHANGED auxVars
  /\ pc = "seq"
  /\ HandlerReturned
  /\ seqPos > Len(sequentialCalls)
  /\ pc' = "resolved"
  /\ UNCHANGED <<docVars, panelVars, netVars, readerVars, parseVars, parVars, seqVars,
                 histVars, aborted, abortPc, failure, toolResults>>

\* ----------------------------------------------- handleSend, continued
\* A reply that drops the results, as the 'Cancelled' return does
ReplyDropsResults == <<>>

\* result.toolResults?.map(tr => ({ tool, result, success }))
ReplyToolCalls == toolResults

\* The agent returned: the status and streaming turns give way to the reply with
\* its results; finally { setIsLoading(false); abortControllerRef.current = null }
FinishTurn ==
  /\ UNCHANGED auxVars
  /\ pc = "resolved"
  /\ messages' = Append(DropProgress(messages),
                        Msg("reply", "assistant", message, FALSE, FALSE, ReplyToolCalls))
  /\ isLoading' = FALSE
  /\ abortRef' = FALSE
  /\ pc' = "ended"
  /\ UNCHANGED <<docVars, input, closureBlocks, netVars, readerVars, parseVars, parVars,
                 seqVars, histVars, aborted, abortPc, failure, toolResults>>

\* The agent threw: catch (agentError) shows the error as the assistant's turn
FinishError ==
  /\ UNCHANGED auxVars
  /\ pc = "rejected"
  /\ messages' = Append(DropProgress(messages),
                        Msg("error", "assistant", <<"Agent mode encountered an error", failure>>,
                            FALSE, FALSE, <<>>))
  /\ isLoading' = FALSE
  /\ abortRef' = FALSE
  /\ pc' = "ended"
  /\ UNCHANGED <<docVars, input, closureBlocks, netVars, readerVars, parseVars, parVars,
                 seqVars, histVars, aborted, abortPc, failure, toolResults>>

Next ==
  \/ HandleSend
  \/ Abort
  \/ ServerSendLine
  \/ ServerCutLine
  \/ ServerClose
  \/ FetchOk
  \/ FetchFail
  \/ FetchAbort
  \/ ReadValue
  \/ ReadValueAborted
  \/ ReadDone
  \/ ReadError
  \/ ReadAbortError
  \/ Parse
  \/ ParStart
  \/ ParSkip
  \/ ParSettle
  \/ ParJoin
  \/ SeqStart
  \/ SeqFinish
  \/ SubChunk
  \/ SubDone
  \/ SubFail
  \/ SeqBreak
  \/ SeqEnd
  \/ FinishTurn
  \/ FinishError

Spec == Init /\ [][Next]_vars


\* ------------------------------------------- the parser on its own
MaxStringLen == 2

\* Characters of a string value: a letter, braces, a quote, a backslash
StringChars == {"a", "{", "}", "\"", "\\"}

StringsIn ==
  UNION { [1..n -> StringChars] : n \in 0..MaxStringLen }
    \cup { <<"a", ",", "}">>, <<",", " ", "]">> }

MessageKey == <<"message">>
ToolCallsKey == <<"tool_calls">>

\* The payloads a reply may hold
ObjectsIn ==
  { ObjV(<<Member(MessageKey, StrV(str))>>) : str \in StringsIn }
    \cup { ObjV(<<Member(ToolCallsKey, ArrV(<<>>)), Member(MessageKey, StrV(<<"ok">>))>>),
           ObjV(<<Member(ToolCallsKey,
                         ArrV(<<ObjV(<<Member(<<"tool">>, StrV(<<"set_lesson_title">>)),
                                       Member(<<"params">>,
                                              ObjV(<<Member(<<"title">>, StrV(<<"}", "a">>))>>))>>),
                                NumV>>)),
                  Member(MessageKey, StrV(<<"a">>))>>),
           ObjV(<<Member(<<"thought">>, ObjV(<<Member(<<"a">>, StrV(<<"{">>))>>)),
                  Member(ToolCallsKey, NumV)>>) }

\* Prose around a payload; none of it holds a well-formed object
ProseBefore == { <<>>, <<"a", " ">>, <<"\"", " ">>, <<"}", " ">>, <<"{", " ">> }
ProseAfter == { <<>>, <<" ", "a">>, <<"}">>, <<"\"", "{">> }

\* Text before a fenced payload: prose, prose with braces, a fenced block of code
OutsideBefore ==
  { <<>>, <<"a", "{", "a", "}", " ">>, <<"FENCE", "a", "{", "a", "}", "FENCE", "NL">> }

\* Replies without any payload
PlainTexts ==
  { <<>>, <<"a">>, <<"a", " ", "{", "a">>, <<"{", "a", "}">>, <<"FENCE", "a", "FENCE">>,
    <<"a", "}", "\"">> }

Origin(kind, before, value, after, cut, fence) ==
  [kind |-> kind, before |-> before, value |-> value, after |-> after,
   cut |-> cut, fence |-> fence]

\* The payload with a comma before its closing brace
TrailingComma(str) == SubSeq(str, 1, Len(str) - 1) \o <<",", "}">>

Fenced(str) == <<"FENCE", "json", "NL">> \o str \o <<"NL", "FENCE">>

OriginsIn ==
  { Origin("embedded", b, v, a, 0, FALSE) : b \in ProseBefore, v \in ObjectsIn, a \in ProseAfter }
    \cup UNION { { Origin("truncated", b, v, <<>>, n, FALSE) :
                     n \in 1..(Len(Stringify(v)) - 1), b \in {<<>>, <<"a", " ">>} } :
                 v \in ObjectsIn }
    \cup { Origin("fenced", b, v, a, 0, TRUE) : b \in OutsideBefore, v \in ObjectsIn,
                                              a \in {<<>>, <<" ", "{", "a">>} }
    \cup { Origin("comma", b, v, <<>>, 0, f) : b \in {<<>>, <<"a", "{", "a", "}", " ">>},
                                            v \in ObjectsIn, f \in BOOLEAN }
    \cup { Origin("plain", b, NoValue, <<>>, 0, FALSE) : b \in PlainTexts }

\* The text of a reply put together that way
Render(o) ==
  CASE o.kind = "embedded" -> o.before \o Stringify(o.value) \o o.after
    [] o.kind = "truncated" -> o.before \o SubSeq(Stringify(o.value), 1, o.cut)
    [] o.kind = "fenced" -> o.before \o Fenced(Stringify(o.value)) \o o.after
    [] o.kind = "comma" ->
         o.before \o (IF o.fence THEN Fenced(TrailingComma(Stringify(o.value)))
                      ELSE TrailingComma(Stringify(o.value)))
    [] OTHER -> o.before

JsonInit ==
  /\ PanelInit
  /\ messages = <<>>
  /\ ThrottleIdle
  /\ ExtraIdle
  /\ origin \in OriginsIn
  /\ replyText = Render(origin)
  /\ balancedJson = NotFound
  /\ reply = PlainReply(<<>>)
  /\ jsonPc = "given"

\* findBalancedJson(str) is applied to the text
CallFindBalancedJson ==
  /\ jsonPc = "given"
  /\ balancedJson' = FindBalancedJson(replyText)
  /\ jsonPc' = "extracted"
  /\ UNCHANGED <<panelModelVars, throttleVars, extraVars, origin, replyText, reply>>

\* parseToolCalls(response) is applied to the text
CallParseToolCalls ==
  /\ jsonPc = "extracted"
  /\ reply' = ParseReply(replyText)
  /\ jsonPc' = "parsed"
  /\ UNCHANGED <<panelModelVars, throttleVars, extraVars, origin, replyText, balancedJson>>

JsonNext ==
  \/ CallFindBalancedJson
  \/ CallParseToolCalls

JsonSpec == JsonInit /\ [][JsonNext]_vars

\* ------------------------------------------- the throttle on its own
\* 'Thinking' and '.'.repeat((Math.floor(chars / 50) % 3) + 1): two of the three
ProgressContents == {"Thinking.", "Thinking.."}

\* `Running ${toolName}...`
ToolContents == {"Running create_block..."}

\* No update of the status message for a whole window
Quiet ==
  \/ visibleLog = <<>>
  \/ clock - visibleLog[Len(visibleLog)].at >= THROTTLE_MS

\* setMessages(prev => prev.map(m => m.id === thinkingId ? { ...m, content } : m))
SetThinkingContent(content) ==
  IF thinkingShown
  THEN /\ thinkingContent' = content
       /\ visibleLog' = Append(visibleLog, [at |-> clock])
  ELSE UNCHANGED <<thinkingContent, visibleLog>>

Event(kind, content, immediate) ==
  [at |-> clock, kind |-> kind, content |-> content, quiet |-> Quiet,
   immediate |-> immediate]

\* Date.now() moves on; a timer that is due may still be waiting for its turn
Tick ==
  /\ turnPhase # "unmounted"
  /\ clock < MountedAt + MaxTicks * TickMs
  /\ clock' = clock + TickMs
  /\ UNCHANGED <<lastProgressUpdateRef, lastToolUpdateRef, pendingProgressUpdateRef,
                 pendingToolUpdateRef, thinkingShown, thinkingContent, turnPhase,
                 visibleLog, eventLog>>
  /\ UNCHANGED <<panelModelVars, jsonVars, extraVars>>

\* onProgress(chars) -> throttledProgressUpdate(thinkingId, content)
ThrottledProgressUpdate ==
  /\ turnPhase = "stream"
  /\ Len(eventLog) < MaxEvents
  /\ \E content \in ProgressContents :
       LET timeSinceLastUpdate == clock - lastProgressUpdateRef
       IN /\ IF timeSinceLastUpdate >= THROTTLE_MS
             THEN /\ lastProgressUpdateRef' = clock
                  /\ SetThinkingContent(content)
                  /\ UNCHANGED pendingProgressUpdateRef
             ELSE /\ pendingProgressUpdateRef' =
                       Timer(clock + (THROTTLE_MS - timeSinceLastUpdate), content)
                  /\ UNCHANGED <<lastProgressUpdateRef, thinkingContent, visibleLog>>
          /\ eventLog' = Append(eventLog, Event("progress", content, timeSinceLastUpdate >= THROTTLE_MS))
  /\ UNCHANGED <<clock, lastToolUpdateRef, pendingToolUpdateRef, thinkingShown, turnPhase>>
  /\ UNCHANGED <<panelModelVars, jsonVars, extraVars>>

\* The timer throttledProgressUpdate has queued runs
ProgressTimerFires ==
  /\ turnPhase # "unmounted"
  /\ pendingProgressUpdateRef.set
  /\ clock >= pendingProgressUpdateRef.due
  /\ lastProgressUpdateRef' = clock
  /\ SetThinkingContent(pendingProgressUpdateRef.content)
  /\ pendingProgressUpdateRef' = NoTimer
  /\ UNCHANGED <<clock, lastToolUpdateRef, pendingToolUpdateRef, thinkingShown, turnPhase,
                 eventLog>>
  /\ UNCHANGED <<panelModelVars, jsonVars, extraVars>>

\* chatStream has resolved and the reply is parsed: the commands run next
StreamResolved ==
  /\ turnPhase = "stream"
  /\ turnPhase' = "tools"
  /\ UNCHANGED <<clock, lastProgressUpdateRef, lastToolUpdateRef, pendingProgressUpdateRef,
                 pendingToolUpdateRef, thinkingShown, thinkingContent, visibleLog, eventLog>>
  /\ UNCHANGED <<panelModelVars, jsonVars, extraVars>>

\* onToolExecuted(toolName, result) -> throttledToolUpdate(thinkingId, content)
ThrottledToolUpdate ==
  /\ turnPhase = "tools"
  /\ Len(eventLog) < MaxEvents
  /\ \E content \in ToolContents :
       LET timeSinceLastUpdate == clock - lastToolUpdateRef
       IN /\ IF timeSinceLastUpdate >= THROTTLE_MS
             THEN /\ lastToolUpdateRef' = clock
                  /\ SetThinkingContent(content)
                  /\ UNCHANGED pendingToolUpdateRef
             ELSE /\ pendingToolUpdateRef' =
                       Timer(clock + (THROTTLE_MS - timeSinceLastUpdate), content)
                  /\ UNCHANGED <<lastToolUpdateRef, thinkingContent, visibleLog>>
          /\ eventLog' = Append(eventLog, Event("tool", content, timeSinceLastUpdate >= THROTTLE_MS))
  /\ UNCHANGED <<clock, lastProgressUpdateRef, pendingProgressUpdateRef, thinkingShown,
                 turnPhase>>
  /\ UNCHANGED <<panelModelVars, jsonVars, extraVars>>

\* The timer throttledToolUpdate has queued runs
ToolTimerFires ==
  /\ turnPhase # "unmounted"
  /\ pendingToolUpdateRef.set
  /\ clock >= pendingToolUpdateRef.due
  /\ lastToolUpdateRef' = clock
  /\ SetThinkingContent(pendingToolUpdateRef.content)
  /\ pendingToolUpdateRef' = NoTimer
  /\ UNCHANGED <<clock, lastProgressUpdateRef, pendingProgressUpdateRef, thinkingShown,
                 turnPhase, eventLog>>
  /\ UNCHANGED <<panelModelVars, jsonVars, extraVars>>

\* runAgentWithTools has resolved: the status message gives way to the reply
ShowResult ==
  /\ turnPhase = "tools"
  /\ turnPhase' = "done"
  /\ thinkingShown' = FALSE
  /\ UNCHANGED <<clock, lastProgressUpdateRef, lastToolUpdateRef, pendingProgressUpdateRef,
                 pendingToolUpdateRef, thinkingContent, visibleLog, eventLog>>
  /\ UNCHANGED <<panelModelVars, jsonVars, extraVars>>

\* The panel unmounts: the cleanup clears both timers
Unmount ==
  /\ turnPhase # "unmounted"
  /\ turnPhase' = "unmounted"
  /\ pendingProgressUpdateRef' = NoTimer
  /\ pendingToolUpdateRef' = NoTimer
  /\ UNCHANGED <<clock, lastProgressUpdateRef, lastToolUpdateRef, thinkingShown,
                 thinkingContent, visibleLog, eventLog>>
  /\ UNCHANGED <<panelModelVars, jsonVars, extraVars>>

ThrottleNext ==
  \/ Tick
  \/ ThrottledProgressUpdate
  \/ ProgressTimerFires
  \/ StreamResolved
  \/ ThrottledToolUpdate
  \/ ToolTimerFires
  \/ ShowResult
  \/ Unmount

\* The panel has mounted for a lesson
ThrottleInit == Init /\ messages = <<>>

ThrottleSpec == ThrottleInit /\ [][ThrottleNext]_vars


\* ------------------------------------- the document operations on their own
\* What a document operation leaves alone: everything but the blocks, the id
\* generator and the record of the operation
docFrame ==
  <<lessonTitle, lessonIcon, panelVars, netVars, readerVars, parseVars, parVars,
    seqVars, histVars, aborted, abortPc, pc, failure, toolResults, jsonVars,
    throttleVars, turnVars, mountVars, appVars>>

\* A type name such as 'text' where addBlock expects an id: it is truthy and
\* equals no block's id, so findIndex answers -1
TypeAnchor == -1

\* addBlock(type, afterId): the new block is empty, its id is generated
AddBlock(bs, type, afterId, newId) ==
  HandleAIAddBlock(bs, Block(newId, type, "", NoLanguage), afterId)

\* handleDragEnd's updater: splice(oldIndex, 1) then splice(newIndex, 0, removed);
\* both positions are 1-based here
MoveTo(bs, oldIndex, newIndex) ==
  LET rest == SubSeq(bs, 1, oldIndex - 1) \o SubSeq(bs, oldIndex + 1, Len(bs))
  IN SubSeq(rest, 1, newIndex - 1) \o <<bs[oldIndex]>> \o SubSeq(rest, newIndex, Len(rest))

\* The values typed into a block or written by the panel
ContentInputs == {""}

\* generateBlockId() may still be called
IdsLeft == nextId <= 2 + MaxAdds

\* The "Add a block" button: addBlock('text')
ClickAddBlock ==
  /\ IdsLeft
  /\ Len(blocks) < MaxBlocks
  /\ blocks' = AddBlock(blocks, "text", 0, nextId)
  /\ nextId' = nextId + 1
  /\ lastOp' = Op("add", nextId, 0)
  /\ prevBlocks' = blocks
  /\ UNCHANGED docFrame

\* Enter in a text block, or a type chosen in a block's menu:
\* onAddBlockAfter(block.id, type), where onAddBlockAfter is addBlock(type, afterId)
OnAddBlockAfter(i) ==
  /\ IdsLeft
  /\ Len(blocks) < MaxBlocks
  /\ i \in 1..Len(blocks)
  /\ blocks' = AddBlock(blocks, ToString(blocks[i].id), TypeAnchor, nextId)
  /\ nextId' = nextId + 1
  /\ lastOp' = Op("add", nextId, TypeAnchor)
  /\ prevBlocks' = blocks
  /\ UNCHANGED docFrame

\* The panel's onAddBlock(blockData, null, customId)
AIAddBlock ==
  /\ IdsLeft
  /\ Len(blocks) < MaxBlocks
  /\ blocks' = HandleAIAddBlock(blocks, Block(nextId, "html", "C", NoLanguage), 0)
  /\ nextId' = nextId + 1
  /\ lastOp' = Op("add", nextId, 0)
  /\ prevBlocks' = blocks
  /\ UNCHANGED docFrame

\* The trash button of a block and the panel's onDeleteBlock: deleteBlock(id)
ClickDelete(i) ==
  /\ IdsLeft
  /\ i \in 1..Len(blocks)
  /\ blocks' = DeleteBlock(blocks, blocks[i].id, nextId)
  /\ nextId' = IF Len(FilterOut(blocks, blocks[i].id)) = 0 THEN nextId + 1 ELSE nextId
  /\ lastOp' = Op("delete", blocks[i].id, 0)
  /\ prevBlocks' = blocks
  /\ UNCHANGED docFrame

\* Backspace in an empty block: deleteBlock(id) unless it is the only block
PressBackspace(i) ==
  /\ i \in 1..Len(blocks)
  /\ blocks[i].content = ""
  /\ Len(blocks) > 1
  /\ blocks' = DeleteBlock(blocks, blocks[i].id, nextId)
  /\ lastOp' = Op("delete", blocks[i].id, 0)
  /\ prevBlocks' = blocks
  /\ UNCHANGED <<docFrame, nextId>>

\* deleteBlock(id) of the editor without a parent: if (blocks.length <= 1) return
GuardedDeleteBlock(i) ==
  /\ i \in 1..Len(blocks)
  /\ blocks' = IF Len(blocks) <= 1 THEN blocks ELSE FilterOut(blocks, blocks[i].id)
  /\ lastOp' = Op("delete", blocks[i].id, 0)
  /\ prevBlocks' = blocks
  /\ UNCHANGED <<docFrame, nextId>>

\* Typing in a block and the panel's onUpdateBlock: updateBlock(id, 'content', value)
UpdateContent(i, value) ==
  /\ i \in 1..Len(blocks)
  /\ value \in ContentInputs
  /\ blocks' = UpdateBlock(blocks, blocks[i].id, value)
  /\ lastOp' = Op("update", blocks[i].id, 0)
  /\ prevBlocks' = blocks
  /\ UNCHANGED <<docFrame, nextId>>

\* Dropping block i on block j: handleDragEnd
HandleDragEnd(i, j) ==
  /\ i \in 1..Len(blocks)
  /\ j \in 1..Len(blocks)
  /\ i # j
  /\ blocks' = MoveTo(blocks, i, j)
  /\ lastOp' = Op("reorder", blocks[i].id, 0)
  /\ prevBlocks' = blocks
  /\ UNCHANGED <<docFrame, nextId>>

DocNext ==
  \/ ClickAddBlock
  \/ \E i \in 1..MaxBlocks : OnAddBlockAfter(i)
  \/ AIAddBlock
  \/ \E i \in 1..MaxBlocks : ClickDelete(i)
  \/ \E i \in 1..MaxBlocks : PressBackspace(i)
  \/ \E i \in 1..MaxBlocks : GuardedDeleteBlock(i)
  \/ \E i \in 1..MaxBlocks, value \in ContentInputs : UpdateContent(i, value)
  \/ \E i \in 1..MaxBlocks, j \in 1..MaxBlocks : HandleDragEnd(i, j)

\* The editor has mounted for a lesson
DocInit == Init /\ messages = <<>>

DocSpec == DocInit /\ [][DocNext]_vars


\* ------------------------------------------ the paths of handleSend on their own
\* What no step of a turn touches
turnFrame ==
  <<closureBlocks, netVars, readerVars, parseVars, parVars, seqVars, histVars,
    abortPc, failure, toolResults, jsonVars, throttleVars, docHistVars, mountVars,
    appVars>>

PanelFiles == {"AIChatPanel.jsx", "part_002"}

\* What the user types: a request the fast path recognises, and another one
InputKinds == {"create a lesson about x", "ask"}

\* isLessonCreation: the keywords of the fast path
IsLessonCreation(text) == text = "create a lesson about x"

\* generateMessageId(): a fresh id for each message of each turn
MsgId(kind, t) == kind \o "-" \o ToString(t)

UserOf(t) == Msg(MsgId("user", t), "user", <<"input">>, FALSE, FALSE, <<>>)
ThinkingOf(t) == Msg(MsgId("thinking", t), "assistant", <<"Thinking...">>, TRUE, FALSE, <<>>)
AssistantOf(kind, t) == Msg(MsgId(kind, t), "assistant", <<kind>>, FALSE, FALSE, <<>>)

\* The save effect: messages.filter(m => !m.isThinking)
MessagesToSave(ms) == SelectSeq(ms, LAMBDA m : ~m.isThinking)

\* The save effect calls saveChatHistory only with a non-empty list
Saved(ms, old) ==
  IF Len(ms) > 0 /\ Len(MessagesToSave(ms)) > 0 THEN MessagesToSave(ms) ELSE old

\* setMessages(...) and the save effect of the render that follows
SetMessages(ms) ==
  /\ messages' = ms
  /\ savedHistory' = Saved(ms, savedHistory)

\* The chunk callback of the agent path and of the legacy path: the first chunk
\* replaces the status turn by the streaming turn, later chunks rewrite it
OnChunkOf(ms, t) ==
  IF HasMsg(ms, MsgId("streaming", t))
  THEN [i \in 1..Len(ms) |->
          IF ms[i].id = MsgId("streaming", t)
          THEN [ms[i] EXCEPT !.content = <<"accumulated">>] ELSE ms[i]]
  ELSE Append(WithoutIds(ms, {MsgId("thinking", t)}),
              Msg(MsgId("streaming", t), "assistant", <<"accumulated">>, FALSE, TRUE, <<>>))

\* prev.filter(m => m.id !== thinkingId && m.id !== streamingMsgId)
DropProgressOf(ms, t) == WithoutIds(ms, {MsgId("thinking", t), MsgId("streaming", t)})

\* onDone of the legacy path in AIChatPanel.jsx: the streaming turn gets the
\* final text and stops streaming
LegacyFinalize(ms, t) ==
  [i \in 1..Len(ms) |->
     IF ms[i].id = MsgId("streaming", t)
     THEN [ms[i] EXCEPT !.content = <<"finalResponse">>, !.isStreaming = FALSE] ELSE ms[i]]

\* onDone of the legacy path in part_002: the status turn becomes 'Done' and
\* keeps its status flag, the reply is appended
LegacyDoneStatus(ms, t) ==
  Append([i \in 1..Len(ms) |->
            IF ms[i].id = MsgId("thinking", t)
            THEN [ms[i] EXCEPT !.content = <<"Done">>, !.isThinking = FALSE, !.isStatus = TRUE]
            ELSE ms[i]],
         AssistantOf("reply", t))

\* The outer catch: prev.filter(m => !m.isThinking) and the error message
OuterCatch(ms, t) == Append(MessagesToSave(ms), AssistantOf("error", t))

\* Turn t has not reached its finally block
TurnRuns(t) == isLoading /\ turns = t

\* The guard of handleSend: something to send, and the busy flag is clear
CanSendWhileBusy == input # ""
CanSend == input # "" /\ ~isLoading

\* finally { setIsLoading(false); abortControllerRef.current = null; }
TurnFinally ==
  /\ isLoading' = FALSE
  /\ abortRef' = FALSE
  /\ inFlight' = inFlight - 1
  /\ pc' = "idle"

TurnInit ==
  /\ PanelInit
  /\ JsonIdle
  /\ ThrottleIdle
  /\ DocIdle
  /\ MountIdle
  /\ AppIdle
  /\ panelFile \in PanelFiles
  /\ useAgentMode \in BOOLEAN
  /\ turns = 0
  /\ streams = {}
  /\ savedHistory = <<>>
  /\ lastWrite = NoWrite
  /\ inFlight = 0
  /\ ignored = FALSE

\* The user edits the text in the input box
TypeInput(text) ==
  /\ ~aborted
  /\ turns < MaxTurns
  /\ text \in InputKinds
  /\ text # input
  /\ input' = text
  /\ UNCHANGED <<docVars, messages, isLoading, abortRef, aborted, pc, turnVars, turnFrame>>

\* The placeholder blocks of the fast path, one for each section
Placeholders ==
  [k \in 1..MaxSections |-> Block(nextId + k - 1, "html", "loading", NoLanguage)]

\* handleSend up to its first await, on whichever path the input takes
HandleSendPath ==
  /\ CanSend
  /\ ~aborted
  /\ turns < MaxTurns
  /\ LET t == turns + 1
         path == IF panelFile = "AIChatPanel.jsx" /\ IsLessonCreation(input) THEN "fast"
                 ELSE IF useAgentMode THEN "agent" ELSE "legacy"
     IN /\ SetMessages(Append(WithoutStatus(Append(messages, UserOf(t))), ThinkingOf(t)))
        /\ turns' = t
        /\ pc' = path
        /\ abortRef' = (abortRef \/ path # "legacy")
        /\ IF path = "fast"
           THEN /\ lessonTitle' = "Topic"
                /\ lessonIcon' = "icon"
                /\ blocks' = blocks \o Placeholders
                /\ nextId' = nextId + MaxSections
                /\ streams' = streams \cup
                     { [turn |-> t, section |-> k, block |-> nextId + k - 1, state |-> "running"] :
                         k \in 1..MaxSections }
           ELSE UNCHANGED <<docVars, streams>>
  /\ input' = ""
  /\ isLoading' = TRUE
  /\ inFlight' = inFlight + 1
  /\ UNCHANGED <<aborted, panelFile, useAgentMode, lastWrite, ignored, turnFrame>>

\* handleSend called while the guard does not hold: it returns at once
IgnoredSend ==
  /\ ~CanSend
  /\ isLoading
  /\ ~aborted
  /\ ignored' = TRUE
  /\ UNCHANGED <<docVars, panelVars, aborted, pc, panelFile, useAgentMode, turns, streams,
                 savedHistory, lastWrite, inFlight, turnFrame>>

\* A chunk of a section stream: onUpdateBlock(blockId, 'content', content)
StreamChunk(st) ==
  /\ st \in streams
  /\ st.state = "running"
  /\ ~aborted
  /\ blocks' = UpdateBlock(blocks, st.block, "partial")
  /\ lastWrite' = [turn |-> st.turn, during |-> TurnRuns(st.turn)]
  /\ UNCHANGED <<lessonTitle, lessonIcon, nextId, panelVars, aborted, pc, panelFile,
                 useAgentMode, turns, streams, savedHistory, inFlight, ignored, turnFrame>>

StreamOutcomes == {"done", "failed", "aborted"}

\* A section stream ends: onDone writes the block, a failure is rethrown by
\* streamToBlock, an AbortError is swallowed.  Promise.all settles with the
\* first failure or with the last success, and handleSend goes on from there.
StreamEnd(st, outcome) ==
  /\ st \in streams
  /\ st.state = "running"
  /\ outcome \in StreamOutcomes
  /\ aborted <=> outcome = "aborted"
  /\ LET after == (streams \ {st}) \cup {[st EXCEPT !.state = outcome]}
         awaited == pc = "fast" /\ TurnRuns(st.turn)
         allResolved == \A o \in after : o.turn = st.turn => o.state \in {"done", "aborted"}
     IN /\ streams' = after
        /\ IF outcome = "done"
           THEN /\ blocks' = UpdateBlock(blocks, st.block, "final")
                /\ lastWrite' = [turn |-> st.turn, during |-> TurnRuns(st.turn)]
           ELSE UNCHANGED <<blocks, lastWrite>>
        /\ IF awaited /\ outcome = "failed"
           THEN /\ SetMessages(Append(WithoutIds(messages, {MsgId("thinking", st.turn)}),
                                      AssistantOf("error", st.turn)))
                /\ TurnFinally
           ELSE IF awaited /\ allResolved
           THEN /\ SetMessages(Append(WithoutIds(messages, {MsgId("thinking", st.turn)}),
                                      AssistantOf("created", st.turn)))
                /\ TurnFinally
           ELSE UNCHANGED <<messages, savedHistory, isLoading, abortRef, inFlight, pc>>
  /\ UNCHANGED <<lessonTitle, lessonIcon, nextId, input, closureBlocks, aborted, panelFile,
                 useAgentMode, turns, ignored, turnFrame>>

\* onStreamChunk of the agent path
AgentChunk ==
  /\ pc = "agent"
  /\ ~aborted
  /\ SetMessages(OnChunkOf(messages, turns))
  /\ UNCHANGED <<docVars, input, isLoading, abortRef, closureBlocks, aborted, pc, panelFile,
                 useAgentMode, turns, streams, lastWrite, inFlight, ignored, turnFrame>>

\* The Executor runs a command of the reply: update_block on the first block
AgentTool ==
  /\ pc = "agent"
  /\ ~aborted
  /\ blocks' = UpdateBlock(blocks, blocks[1].id, "U")
  /\ lastWrite' = [turn |-> turns, during |-> TurnRuns(turns)]
  /\ UNCHANGED <<lessonTitle, lessonIcon, nextId, panelVars, aborted, pc, panelFile,
                 useAgentMode, turns, streams, savedHistory, inFlight, ignored, turnFrame>>

AgentOutcomes == {"reply", "error", "cancelled"}

\* runAgentWithTools settles: the reply, the agent's error or the cancellation
AgentEnd(outcome) ==
  /\ pc = "agent"
  /\ outcome \in AgentOutcomes
  /\ aborted <=> outcome = "cancelled"
  /\ SetMessages(IF outcome = "cancelled"
                 THEN DropProgressOf(messages, turns)
                 ELSE Append(DropProgressOf(messages, turns), AssistantOf(outcome, turns)))
  /\ TurnFinally
  /\ UNCHANGED <<docVars, input, closureBlocks, aborted, panelFile, useAgentMode, turns,
                 streams, lastWrite, ignored, turnFrame>>

\* The chunk callback of the legacy path (part_002 passes an empty callback)
LegacyChunk ==
  /\ pc = "legacy"
  /\ ~aborted
  /\ panelFile = "AIChatPanel.jsx"
  /\ SetMessages(OnChunkOf(messages, turns))
  /\ UNCHANGED <<docVars, input, isLoading, abortRef, closureBlocks, aborted, pc, panelFile,
                 useAgentMode, turns, streams, lastWrite, inFlight, ignored, turnFrame>>

LegacyOutcomes == {"done", "error", "aborted"}

\* The legacy stream settles: onDone and the return, the outer catch, or the
\* null chatStream returns after abortAll()
LegacyEnd(outcome) ==
  /\ pc = "legacy"
  /\ outcome \in LegacyOutcomes
  /\ aborted <=> outcome = "aborted"
  /\ SetMessages(CASE outcome = "done" /\ panelFile = "AIChatPanel.jsx" ->
                        LegacyFinalize(messages, turns)
                   [] outcome = "done" /\ panelFile = "part_002" ->
                        LegacyDoneStatus(messages, turns)
                   [] outcome = "error" -> OuterCatch(messages, turns)
                   [] OTHER -> messages)
  /\ TurnFinally
  /\ UNCHANGED <<docVars, input, closureBlocks, aborted, panelFile, useAgentMode, turns,
                 streams, lastWrite, ignored, turnFrame>>

\* The cleanup effect of the panel: abortAll() and the handle's abort()
Unmounts ==
  /\ isLoading
  /\ ~aborted
  /\ aborted' = TRUE
  /\ UNCHANGED <<docVars, panelVars, pc, turnVars, turnFrame>>

TurnNext ==
  \/ \E text \in InputKinds : TypeInput(text)
  \/ HandleSendPath
  \/ IgnoredSend
  \/ \E st \in streams : StreamChunk(st)
  \/ \E st \in streams, outcome \in StreamOutcomes : StreamEnd(st, outcome)
  \/ AgentChunk
  \/ AgentTool
  \/ \E outcome \in AgentOutcomes : AgentEnd(outcome)
  \/ LegacyChunk
  \/ \E outcome \in LegacyOutcomes : LegacyEnd(outcome)
  \/ Unmounts

TurnSpec == TurnInit /\ [][TurnNext]_vars


\* ------------------------------------------- the panel's mount on its own
mountFrame ==
  <<docVars, input, isLoading, abortRef, closureBlocks, netVars, readerVars, parseVars,
    parVars, seqVars, histVars, aborted, abortPc, pc, failure, toolResults, jsonVars,
    throttleVars, docHistVars, appVars, panelFile, useAgentMode, streams, savedHistory,
    lastWrite, inFlight, ignored>>

\* A history a lesson may have in storage: one exchange of an earlier session
StoredExchange == <<UserOf(0), AssistantOf("reply", 0)>>

\* loadChatHistory(lessonId): allChats[lessonId] || []
LoadChatHistory(id) == chatStorage[id]

\* The load effect: it returns at once for the lesson id the panel was mounted
\* with, else the session becomes the stored turns or the welcome message
LoadEffect(ms, id, prevId) ==
  IF id = prevId /\ prevId # NoLessonId THEN ms
  ELSE LET savedMessages == IF id # NoLessonId THEN LoadChatHistory(id) ELSE <<>>
       IN IF Len(savedMessages) > 0 THEN savedMessages ELSE <<WelcomeMsg>>

\* The save effect for the mounted lesson: saveChatHistory(lessonId, messagesToSave)
SaveChat(store, id, ms) ==
  IF id # NoLessonId /\ Len(ms) > 0 /\ Len(MessagesToSave(ms)) > 0
  THEN [store EXCEPT ![id] = MessagesToSave(ms)]
  ELSE store

\* What localStorage may hold when the application starts
MountInit ==
  /\ PanelInit
  /\ messages = <<>>
  /\ JsonIdle
  /\ ThrottleIdle
  /\ DocIdle
  /\ TurnIdle
  /\ AppIdle
  /\ lessonId = NoLessonId
  /\ prevLessonIdRef = NoLessonId
  /\ chatStorage \in [LessonIds -> {<<>>, StoredExchange}]
  /\ mounted = FALSE
  /\ fresh = FALSE

\* The panel mounts with the lessonId prop id: useState([]), useRef(lessonId),
\* then the load effect and the save effect
MountPanel(id) ==
  /\ ~mounted
  /\ id \in LessonIds \cup {NoLessonId}
  /\ lessonId' = id
  /\ prevLessonIdRef' = id
  /\ messages' = LoadEffect(<<>>, id, id)
  /\ chatStorage' = SaveChat(chatStorage, id, messages')
  /\ mounted' = TRUE
  /\ fresh' = TRUE
  /\ UNCHANGED <<turns, mountFrame>>

\* A turn of the agent path that ends with a reply, and the save effect
Exchange ==
  /\ mounted
  /\ turns < MaxTurns
  /\ LET t == turns + 1
         shown == Append(WithoutStatus(Append(messages, UserOf(t))), ThinkingOf(t))
     IN /\ messages' = Append(DropProgressOf(shown, t), AssistantOf("reply", t))
        /\ turns' = t
  /\ chatStorage' = SaveChat(chatStorage, lessonId, messages')
  /\ fresh' = FALSE
  /\ UNCHANGED <<lessonId, prevLessonIdRef, mounted, mountFrame>>

\* clearChat(): the session becomes the 'chat cleared' message, the stored
\* turns are deleted, and the save effect stores the new session
ClearChat ==
  /\ mounted
  /\ messages # <<AssistantOf("cleared", 0)>>
  /\ messages' = <<AssistantOf("cleared", 0)>>
  /\ chatStorage' = SaveChat([l \in LessonIds |-> IF l = lessonId THEN <<>> ELSE chatStorage[l]],
                             lessonId, messages')
  /\ fresh' = FALSE
  /\ UNCHANGED <<lessonId, prevLessonIdRef, mounted, turns, mountFrame>>

\* The editor is replaced (another lesson is chosen): the session is discarded
UnmountPanel ==
  /\ mounted
  /\ mounted' = FALSE
  /\ messages' = <<>>
  /\ fresh' = FALSE
  /\ UNCHANGED <<lessonId, prevLessonIdRef, chatStorage, turns, mountFrame>>

MountNext ==
  \/ \E id \in LessonIds \cup {NoLessonId} : MountPanel(id)
  \/ Exchange
  \/ ClearChat
  \/ UnmountPanel

MountSpec == MountInit /\ [][MountNext]_vars


\* ------------------------------------------- the library's saves on their own
appFrame == <<panelModelVars, jsonVars, throttleVars, docHistVars, turnVars, mountVars>>

Titles == {"a", "b"}

\* The application has loaded the stored library
AppInit == Init /\ messages = <<>>

\* lessons.find(l => l.id === activeLessonId) || lessons[0]
ActiveLesson ==
  IF \E i \in 1..Len(lessons) : lessons[i].id = activeLessonId
  THEN CHOOSE l \in {lessons[i] : i \in 1..Len(lessons)} : l.id = activeLessonId
  ELSE lessons[1]

\* updateLesson(activeLesson.id, updates): the edit goes into the library, and
\* debouncedSave(updatedLessons, prev.activeLessonId) replaces the pending timer
UpdateLesson(title) ==
  /\ edits < MaxEdits
  /\ title \in Titles
  /\ title # ActiveLesson.title
  /\ LET updatedLessons ==
           [i \in 1..Len(lessons) |->
              IF lessons[i].id = ActiveLesson.id THEN Lesson(lessons[i].id, title)
              ELSE lessons[i]]
     IN /\ lessons' = updatedLessons
        /\ timeoutRef' = [set |-> TRUE, lessons |-> updatedLessons,
                          activeLessonId |-> activeLessonId]
  /\ edits' = edits + 1
  /\ UNCHANGED <<activeLessonId, lessonStorage, created, appFrame>>

\* The debounce timer fires after 500 ms: saveToStorage(updatedLessons, id)
\* writes the arguments it was queued with
DebouncedSaveFires ==
  /\ timeoutRef.set
  /\ lessonStorage' = Data(timeoutRef.lessons, timeoutRef.activeLessonId)
  /\ timeoutRef' = NoTimeout
  /\ UNCHANGED <<lessons, activeLessonId, created, edits, appFrame>>

\* handleCreateLesson(): the new lesson is added, made active and saved at once
HandleCreateLesson ==
  /\ created < MaxCreated
  /\ LET newLesson == Lesson("N" \o ToString(created + 1), "a")
         updated == Append(lessons, newLesson)
     IN /\ lessons' = updated
        /\ activeLessonId' = newLesson.id
        /\ lessonStorage' = Data(updated, newLesson.id)
  /\ created' = created + 1
  /\ UNCHANGED <<timeoutRef, edits, appFrame>>

\* handleSelectLesson(lessonId): saved at once
HandleSelectLesson(id) ==
  /\ \E i \in 1..Len(lessons) : lessons[i].id = id
  /\ id # activeLessonId
  /\ activeLessonId' = id
  /\ lessonStorage' = Data(lessons, id)
  /\ UNCHANGED <<lessons, timeoutRef, created, edits, appFrame>>

\* handleDeleteLesson(lessonId): never the last lesson; saved at once
HandleDeleteLesson(id) ==
  /\ \E i \in 1..Len(lessons) : lessons[i].id = id
  /\ Len(lessons) > 1
  /\ LET updated == SelectSeq(lessons, LAMBDA l : l.id # id)
         newActiveId == IF id = activeLessonId THEN updated[1].id ELSE activeLessonId
     IN /\ lessons' = updated
        /\ activeLessonId' = newActiveId
        /\ lessonStorage' = Data(updated, newActiveId)
  /\ UNCHANGED <<timeoutRef, created, edits, appFrame>>

\* Every id a lesson of the library may have
AllLessonIds == LessonIds \cup {"N" \o ToString(k) : k \in 1..MaxCreated}

AppNext ==
  \/ \E title \in Titles : UpdateLesson(title)
  \/ DebouncedSaveFires
  \/ HandleCreateLesson
  \/ \E id \in AllLessonIds : HandleSelectLesson(id)
  \/ \E id \in AllLessonIds : HandleDeleteLesson(id)

AppSpec == AppInit /\ [][AppNext]_vars


\* ---------------------------------------------------------------- claims
IsPrefix(p, q) == Len(p) <= Len(q) /\ SubSeq(q, 1, Len(p)) = p

IsParallelSafe(i) == toolCalls[i].tool \in ParallelizableTools

\* The order-dependent commands among the started ones, in start order
SeqStarted == SelectSeq(started, LAMBDA i : i \in Range(sequentialCalls))


\* C1: no order-dependent command's handler starts before the handler of every
\* parallel-safe command of the same list has finished, wherever in the list
\* the parallel-safe commands stand
C1_ParallelBeforeSequential ==
  \A i \in Range(started) :
    ~IsParallelSafe(i) =>
      \A j \in 1..Len(toolCalls) : IsParallelSafe(j) => j \in finished

\* An order-dependent command has started in a turn whose list names a
\* parallel-safe command after it
C1_Witness ==
  \E i \in Range(started) : \E j \in finished :
    ~IsParallelSafe(i) /\ IsParallelSafe(j) /\ i < j

\* C2: the order-dependent commands run one at a time in list order: at most
\* one of their handlers is running, they start in the order of the list, and
\* every one started before the latest has returned
C2_SequentialOneAtATime ==
  /\ Cardinality(active \cap Range(sequentialCalls)) <= 1
  /\ IsPrefix(SeqStarted, sequentialCalls)
  /\ \A k \in 1..Len(sequentialCalls) - 1 : sequentialCalls[k] < sequentialCalls[k + 1]
  /\ \A k \in 1..Len(SeqStarted) - 1 : SeqStarted[k] \in finished

\* A streaming handler is waiting for its sub-request while the list still
\* holds an order-dependent command that has not started
C2_Witness ==
  /\ pc = "seq"
  /\ seqActive # 0
  /\ seqOutcome.how = "await"
  /\ subChunks >= 1
  /\ ~aborted
  /\ seqPos <= Len(sequentialCalls)

\* C3: a command that addresses a block by position addresses the block that
\* stands at that position when the command starts, after the commands run
\* earlier in the same turn
C3_PositionalSeesEarlierCommands ==
  \A k \in 1..Len(addrLog) : addrLog[k].target = addrLog[k].current

\* C4: a command whose handler throws gets a result with success = false and
\* the error's message, and the commands after it in the list are still
\* executed: an uncancelled turn that got past a throwing handler ends with a
\* result for every command
C4_ThrowIsolated ==
  /\ \A k \in 1..Len(toolResults) :
       resultCalls[k] \in threw =>
         /\ ~toolResults[k].success
         /\ toolResults[k].result = TypeErrorMessage
  /\ (pc = "ended" /\ threw # {} /\ ~aborted) =>
       /\ finished = 1..Len(toolCalls)
       /\ Range(resultCalls) = 1..Len(toolCalls)
       /\ Last(messages).id = "reply"

\* A handler threw and a command after it in the list ran and succeeded
C4_Witness ==
  /\ pc = "ended"
  /\ \E i \in threw : \E k \in 1..Len(toolResults) :
       /\ resultCalls[k] > i
       /\ ~IsParallelSafe(resultCalls[k])
       /\ toolResults[k].success

ParamGiven(params, name) ==
  CASE name = "title" -> params.title # Undefined
    [] name = "icon" -> params.icon # Undefined
    [] name = "content" -> params.content # Undefined
    [] name = "code" -> params.code # Undefined
    [] name = "language" -> params.language # Undefined
    [] name = "prompt" -> params.prompt # Undefined
    [] name = "index" -> params.index.t # "undefined"

MissingRequired(c) ==
  c.tool \in ToolNames /\ \E name \in Required(c.tool) : ~ParamGiven(c.params, name)

\* C5: a recognised command that lacks a required parameter gets a result
\* with success = false
C5_MissingParamsFail ==
  \A k \in 1..Len(toolResults) :
    MissingRequired(toolCalls[resultCalls[k]]) => ~toolResults[k].success

\* C6: a turn that is not cancelled returns exactly one result per command of
\* the parsed list, the results of the order-dependent commands in their
\* relative list order
C6_OneResultPerCommand ==
  (pc = "ended" /\ ~aborted /\ failure # "transport") =>
    /\ Last(messages).id = "reply"
    /\ Len(Last(messages).toolCalls) = Len(toolCalls)
    /\ Len(resultCalls) = Len(toolCalls)
    /\ Range(resultCalls) = 1..Len(toolCalls)
    /\ \A k, l \in 1..Len(resultCalls) :
         (k < l /\ ~IsParallelSafe(resultCalls[k]) /\ ~IsParallelSafe(resultCalls[l]))
           => resultCalls[k] < resultCalls[l]

\* C7: only a failure of the transport ends the turn with the error message:
\* whatever the entries of the parsed list are, a turn whose request succeeded
\* ends with the reply
C7_OnlyTransportFailsTurn ==
  (pc = "ended" /\ Last(messages).id = "error") => failure = "transport"

\* C8: once the handle is signalled no handler is started, and a turn
\* cancelled while the reply is still streaming executes no command
C8_NoStartAfterCancel ==
  [][ /\ aborted => started' = started
      /\ abortPc' \in {"fetch", "read"} => started' = <<>> ]_vars

\* The loop finds the handle signalled with a command left to start
C8_Witness ==
  /\ aborted
  /\ pc = "seq"
  /\ seqActive = 0
  /\ started # <<>>
  /\ seqPos <= Len(sequentialCalls)

\* C9: a cancelled stream reader returns the text it has accumulated as a
\* normal result
C9_CancelReturnsAccumulated ==
  (pc = "parse" /\ aborted) =>
    /\ streamRet.kind = "text"
    /\ streamRet.text = responseChunks
    /\ fullResponse = responseChunks

\* C10: a turn cancelled while commands execute ends with the reply, the reply
\* carries the results of exactly the commands that ran, and the document is
\* as those commands left it
C10_CancelKeepsCompleted ==
  (pc = "ended" /\ abortPc = "seq") =>
    /\ Last(messages).id = "reply"
    /\ Last(messages).toolCalls = toolResults
    /\ resultCalls = started
    /\ Range(started) = finished
    /\ blocks = execBlocks

\* A turn cancelled inside a streaming command: the command's result is in the
\* reply, its block is in the document, a later command never ran
C10_Witness ==
  /\ pc = "ended"
  /\ abortPc = "seq"
  /\ Len(Last(messages).toolCalls) >= 1
  /\ Len(started) < Len(toolCalls)
  /\ Len(blocks) > Len(closureBlocks)


\* What chatStream returns and reports when the whole response b arrives in
\* one read
WholeRead(b) ==
  LET parts == SplitLines(b)
      r == ProcessLines(AllButLast(parts), <<>>, <<>>)
  IN [text |-> IF r.done THEN r.chunks ELSE FlushBuffer(parts[Len(parts)], r.chunks),
      log |-> r.log]

\* chatStream has returned text in a turn that was not cancelled
ReaderReturned == pc = "parse" /\ ~aborted /\ streamRet.kind = "text"

\* C11: the text chatStream returns and the (delta, accumulated) pairs it
\* reports are those of the same response arriving in a single read, however
\* the network split it
C11_SplitIndependent ==
  ReaderReturned =>
    /\ streamRet.text = WholeRead(body).text
    /\ chunkLog = WholeRead(body).log

\* The first read ended inside a delta's line; the line was rejoined and its
\* delta is in the returned text
C11_Witness ==
  /\ ReaderReturned
  /\ Len(reads) >= 2
  /\ reads[1] = 1
  /\ body[1] \in {"a1", "b1", "x1"}
  /\ Len(streamRet.text) >= 1
  /\ chunkLog # <<>>

\* C12: onChunk is called exactly once, in order, for every delta of the
\* returned text, each time with the concatenation of the deltas so far
C12_CallbackPerDelta ==
  ReaderReturned =>
    chunkLog = [k \in 1..Len(streamRet.text) |->
                  [delta |-> streamRet.text[k],
                   accumulated |-> SubSeq(streamRet.text, 1, k)]]

\* C13: when the request is refused or the stream breaks, chatStream returns
\* no text, no command of the turn is executed and the turn ends with exactly
\* one error message
C13_TransportFailureEndsTurn ==
  /\ failure = "transport" =>
       /\ streamRet = NoReturn
       /\ toolCalls = <<>>
       /\ started = <<>>
       /\ toolResults = <<>>
       /\ blocks = closureBlocks
  /\ (pc = "ended" /\ failure = "transport") =>
       /\ messages[Len(messages)].id = "error"
       /\ Cardinality({i \in 1..Len(messages) : messages[i].id = "error"}) = 1
       /\ \A i \in 1..Len(messages) : messages[i].id \notin {"thinking", "streaming", "reply"}

\* The stream broke after a delta had been shown
C13_Witness ==
  /\ pc = "ended"
  /\ failure = "transport"
  /\ responseChunks # <<>>
  /\ ~aborted


Extracted == jsonPc \in {"extracted", "parsed"}

\* C14: for a text that holds one well-formed object inside prose,
\* findBalancedJson returns exactly that object's text, whatever the prose
C14_ExtractsEmbeddedObject ==
  (Extracted /\ origin.kind = "embedded") =>
    balancedJson = Found(Stringify(origin.value))

\* C15: braces, escaped quotes and backslashes inside string values do not
\* disturb the depth count: findBalancedJson returns the whole object and
\* JSON.parse of what it returns is the object
C15_StringsDoNotCount ==
  (Extracted /\ origin.kind = "embedded" /\ IndexOf(origin.before, "{") = 0) =>
    /\ balancedJson = Found(Stringify(origin.value))
    /\ JsonParse(balancedJson.text).ok
    /\ JsonParse(balancedJson.text).val = origin.value

\* A string value "}\" was scanned, with a brace in the text that follows
C15_Witness ==
  /\ Extracted
  /\ origin.kind = "embedded"
  /\ origin.before = <<"a", " ">>
  /\ origin.after = <<"}">>
  /\ origin.value = ObjV(<<Member(MessageKey, StrV(<<"}", "\"">>))>>)
  /\ balancedJson.found

\* C16: when the depth opened at the first brace is not back at zero at the
\* end of the text, findBalancedJson returns not-found; what it does return
\* always runs from the first opening brace to a closing brace
C16_UnbalancedIsNotFound ==
  Extracted =>
    /\ origin.kind = "truncated" => balancedJson = NotFound
    /\ balancedJson.found =>
         /\ balancedJson.text[1] = "{"
         /\ balancedJson.text[Len(balancedJson.text)] = "}"
         /\ balancedJson.text =
              SubSeq(replyText, IndexOf(replyText, "{"),
                     IndexOf(replyText, "{") + Len(balancedJson.text) - 1)

\* An object cut off behind a closing brace that stands inside its text
C16_Witness ==
  /\ Extracted
  /\ origin.kind = "truncated"
  /\ replyText[Len(replyText)] = "}"
  /\ balancedJson = NotFound

ReplyParsed == jsonPc = "parsed"

\* C17: when the reply holds a fenced block with a parseable object inside,
\* the result comes from that object, whatever stands outside the fence
C17_FencedFirst ==
  (ReplyParsed /\ origin.kind = "fenced") => reply = ReplyOf(origin.value)

\* C18: a payload that fails strict parsing only for a comma before its
\* closing brace is repaired, and the result holds the payload's commands and
\* message
C18_TrailingCommaRepaired ==
  (ReplyParsed /\ origin.kind = "comma") => reply = ReplyOf(origin.value)

\* C19 as stated: every text in which no strategy finds a parseable object
\* gives zero commands and the text itself as the message
C19_PlainTextVerbatim ==
  (ReplyParsed /\ origin.kind \in {"plain", "truncated"}) =>
    /\ reply.toolCalls = <<>>
    /\ reply.message = StrV(replyText)

\* C19, amended: every non-empty text in which no strategy finds a parseable
\* object gives zero commands and the text itself as the message; the empty
\* text gives zero commands and the message 'No response'
C19_NonEmptyPlainTextVerbatim ==
  (ReplyParsed /\ origin.kind \in {"plain", "truncated"}) =>
    /\ reply.toolCalls = <<>>
    /\ reply.message = IF replyText = <<>> THEN StrV(<<"No response">>) ELSE StrV(replyText)

\* A text with balanced braces that is no JSON went through every strategy
C19_Witness ==
  /\ ReplyParsed
  /\ origin.kind = "plain"
  /\ replyText = <<"{", "a", "}">>
  /\ balancedJson.found
  /\ reply.message = StrV(replyText)

\* C20: two consecutive updates of the visible status message are at least
\* one window of 300 ms apart, however fast stream-chunk and command events
\* arrive, and an event that arrives after a window without any update is
\* applied at once
C20_AtMostOncePerWindow ==
  /\ \A i \in 1..(Len(visibleLog) - 1) :
       visibleLog[i + 1].at - visibleLog[i].at >= THROTTLE_MS
  /\ \A i \in 1..Len(eventLog) : eventLog[i].quiet => eventLog[i].immediate

\* No timer is queued: every deferred update has run
NoPendingUpdate == ~pendingProgressUpdateRef.set /\ ~pendingToolUpdateRef.set

C24_AtLeastOneBlock ==
  /\ Len(blocks) >= 1
  /\ (lastOp.name = "delete" /\ Len(prevBlocks) = 1 /\ prevBlocks[1].id = lastOp.id) =>
       /\ Len(blocks) = 1
       /\ blocks[1].id # prevBlocks[1].id
       /\ blocks[1].type = "text"
       /\ blocks[1].content = ""

\* C25: a block added with an anchor stands right after the anchor's block, a
\* block added without one stands last, and the blocks that were there before
\* keep their order
C25_AddBlockPlacement ==
  lastOp.name = "add" =>
    /\ FilterOut(blocks, lastOp.id) = prevBlocks
    /\ IF lastOp.afterId # 0
       THEN /\ FindIndex(prevBlocks, lastOp.afterId) # 0
            /\ FindIndex(blocks, lastOp.id) = FindIndex(blocks, lastOp.afterId) + 1
       ELSE blocks[Len(blocks)].id = lastOp.id

\* The batch names a call of the given command
BatchNames(tool) == \E i \in Range(parallelCalls) : toolCalls[i].tool = tool

\* A step taken while the batch runs keeps the blocks and the id generator
ParallelSafeStep ==
  pc \in {"dispatch", "parAwait"} =>
    /\ blocks' = blocks
    /\ nextId' = nextId
    /\ (~BatchNames("set_lesson_title") => lessonTitle' = lessonTitle)
    /\ (~BatchNames("set_lesson_icon") => lessonIcon' = lessonIcon)

\* C26: running the batch of parallel-safe commands leaves the blocks (ids,
\* order, contents) and the id generator as they were, and changes the title
\* only for set_lesson_title and the icon only for set_lesson_icon
C26_ParallelSafeFrame == [][ParallelSafeStep]_vars

\* A batch with a set_lesson_title command has run and has changed the title
C26_Witness ==
  /\ pc = "parAwait"
  /\ BatchNames("set_lesson_title")
  /\ lessonTitle = "T"

\* C22: no list handed to saveChatHistory holds a turn flagged as a status turn
C22_NoStatusTurnSaved ==
  \A i \in 1..Len(savedHistory) : ~savedHistory[i].isStatus

\* C23: once a turn has ended, with a reply, an error or a cancellation, no
\* status turn is left in the session
C23_NoStatusAfterTurn ==
  ~isLoading => \A i \in 1..Len(messages) : ~messages[i].isStatus /\ ~messages[i].isThinking

\* C28: at most one call of handleSend is under way, the busy flag is set
\* exactly while it is, and when it is clear the cancellation handle is clear too
C28_OneTurnInFlight ==
  /\ inFlight <= 1
  /\ isLoading <=> inFlight = 1
  /\ isLoading <=> pc # "idle"
  /\ ~isLoading => ~abortRef

\* A submission made during a turn was ignored, and the turn has ended since
C28_Witness ==
  /\ ignored
  /\ turns > 0
  /\ ~isLoading
  /\ inFlight = 0

\* C29: every block update is made while the turn it comes from is under way
C29_NoWriteAfterTurn == lastWrite.during

\* C27: a panel that has just mounted for a lesson shows the lesson's stored
\* turns, and the welcome message when nothing is stored for it
C27_MountLoadsHistory ==
  (mounted /\ fresh) =>
    messages = IF lessonId # NoLessonId /\ chatStorage[lessonId] # <<>>
               THEN chatStorage[lessonId]
               ELSE <<WelcomeMsg>>

\* C30: whenever no debounced save is pending, storage holds the lessons and
\* the active lesson id the application holds in memory
C30_StorageMatchesMemory ==
  ~timeoutRef.set => lessonStorage = Data(lessons, activeLessonId)

====
